---- MODULE Spec2Model ----
(***************************************************************************)
(* A model of the courtlistener bulk importer: the resumable import loop   *)
(* (import_ALL_freelaw_data_FIXED.py, import_checkpoint.py), the CLI       *)
(* import over BulkCSVParser (courtfinder/main.py, csv_parser.py), the     *)
(* indexed file store (courtfinder/storage.py, models.py) and the citation *)
(* network traversal (courtfinder/search.py).                              *)
(***************************************************************************)
EXTENDS Integers, Sequences, FiniteSets, TLC

VARIABLES
    \* ---- import_data_type + ImportCheckpoint (one data type's stream) ----
    source,          \* the rows of the bz2 file: which positions fail / have no id
    cpFile,          \* content of <data_type>_checkpoint.json
    pc,              \* position of the importing process
    limit,           \* the limit argument of the running call (0: None)
    row_num,         \* enumerate(reader, 1) index of the last row read
    resume_from,     \* local resume_from
    imported_count,  \* local imported_count
    error_count,     \* local error_count
    result,          \* the dict the last call returned
    started,         \* history: "fresh" or "resumed", how the running call started
    after_kill,      \* history: the call before this one started fresh, had no
                     \* limit and was stopped from outside
    full_result,     \* history: result of an uninterrupted import of the source
    save_old,        \* history: the file content a running save replaces
    save_new,        \* history: the entry a running save writes
    start_file,      \* history: the checkpoint file the running call found
    \* ---- CourtFinderCLI.import_csv_data over BulkCSVParser.parse_file ----
    \* Two executions of the CLI are kept side by side: they import the same
    \* second stream after first streams that may differ.
    streams,         \* streams[e][t]: the csv file of data type t in execution e
    cli,             \* cli[e]: the CLI object and its running import
    \* ---- CourtFinderStorage ----
    storage,         \* storage[s]: the FileStorage of each record type
    scope,           \* the record types the session works with
    saved,           \* history: saved[s][id], the record last saved under id
    \* ---- the domain FileStorage (storage/file_storage.py) and its callers ----
    _lock,           \* self._lock: Unlocked, or the thread that acquired it
    stack,           \* stack[t]: the calls of thread t that have not returned
    records_path,    \* the files of the records directory, by record id
    returned,        \* history: returned[t], the calls of t that have returned
    written_ids,     \* history: the record ids written so far
    \* ---- FileStorage.save_batch and concurrent FileStorage.save calls ----
    lock,            \* self.lock, a threading.RLock: its owner and count
    workers,         \* workers[w]: the item worker w saves and its position
    pool,            \* the caller of save_batch ("none": the workers call save)
    \* ---- BulkDataSet (domain/aggregates.py) ----
    dataset,         \* the BulkDataSet: data_files, total_size, events
    outcome,         \* what the last call on the dataset returned
    \* ---- the functions checked on their own ----
    argument,        \* the argument of the first call
    returns,         \* what the calls made so far returned
    \* ---- OpinionCSVParser.parse_opinion_csv ----
    opinion_csv,     \* the export: its rows, the lines of the file, the limit
    parsing,         \* the locals of parse_opinion_csv and where it is
    \* ---- a process that holds the CourtFinderStorage, stops and starts again ----
    process,         \* whether it runs, the save it is in, and what it did last
    \* ---- the caller of a running import ----
    active           \* the flag the caller of an import clears to cancel it

importVars == <<source, cpFile, pc, limit, row_num, resume_from, imported_count,
                error_count, result, started, after_kill, full_result,
                save_old, save_new, start_file>>

cliVars == <<streams, cli>>

storeVars == <<storage, scope, saved>>

lockVars == <<_lock, stack, records_path, returned, written_ids>>

workerVars == <<lock, workers, pool>>

datasetVars == <<dataset, outcome>>

callVars == <<argument, returns>>

parserVars == <<opinion_csv, parsing>>

processVars == <<process>>

flagVars == <<active>>

vars == <<importVars, cliVars, storeVars, lockVars, workerVars, datasetVars, callVars, parserVars, processVars, flagVars>>

OutsideImport == <<cliVars, storeVars, lockVars, workerVars, datasetVars, callVars, parserVars, processVars, flagVars>>

OutsideCli == <<importVars, storeVars, lockVars, workerVars, datasetVars, callVars, parserVars, processVars, flagVars>>

OutsideStore == <<importVars, cliVars, lockVars, workerVars, datasetVars, callVars, parserVars, processVars, flagVars>>

OutsideLock == <<importVars, cliVars, storeVars, workerVars, datasetVars, callVars, parserVars, processVars, flagVars>>

OutsideWorkers == <<importVars, cliVars, lockVars, datasetVars, callVars, parserVars, processVars, flagVars>>

OutsideDataset == <<importVars, cliVars, storeVars, lockVars, workerVars, callVars, parserVars, processVars, flagVars>>

OutsideCall == <<importVars, cliVars, storeVars, lockVars, workerVars, datasetVars, parserVars, processVars, flagVars>>

OutsideParser == <<importVars, cliVars, storeVars, lockVars, workerVars, datasetVars, callVars, processVars, flagVars>>

OutsideProcess == <<importVars, cliVars, lockVars, workerVars, datasetVars, callVars, parserVars, flagVars>>

OutsideFlag == <<importVars, cliVars, storeVars, lockVars, workerVars, datasetVars, callVars, parserVars, processVars>>

----------------------------------------------------------------------------
(* Bounds and program constants *)

NRows == 2001

CheckpointEvery == 1000

----------------------------------------------------------------------------
(* ImportCheckpoint: the ledger file of one data type *)

RequiredFields == {"data_type", "file_path", "last_processed_id",
                   "row_number", "imported_count", "error_count"}

AllFields == RequiredFields \cup {"timestamp", "version"}

NoFile == [kind |-> "absent"]

\* An empty or partly written file: json.load raises on it.
Unreadable == [kind |-> "unreadable"]

None == [kind |-> "none"]

\* A variant that is given the imported count where the row number belongs.
Checkpoint_CountAsRow(last_id, rn, ic, ec) ==
    [kind |-> "json", fields |-> AllFields, last_processed_id |-> last_id,
     row_number |-> ic, imported_count |-> ic, error_count |-> ec]

\* The dict save_checkpoint dumps.
Checkpoint(last_id, rn, ic, ec) ==
    [kind |-> "json", fields |-> AllFields, last_processed_id |-> last_id,
     row_number |-> rn, imported_count |-> ic, error_count |-> ec]

\* load_checkpoint: None for a missing file, a file json.load rejects, or a
\* dict without one of the required fields; the dict otherwise.
load_checkpoint(file) ==
    IF file.kind = "absent" THEN None
    ELSE IF file.kind = "unreadable" THEN None
    ELSE IF \E f \in RequiredFields : f \notin file.fields THEN None
    ELSE file

\* get_resume_info: None without a checkpoint; reads checkpoint['timestamp'],
\* which raises KeyError when the dict has no such key.
get_resume_info_raises(file) ==
    /\ load_checkpoint(file) # None
    /\ "timestamp" \notin load_checkpoint(file).fields

\* clear_checkpoint: unlink the file if it exists.
clear_checkpoint(file) == NoFile

----------------------------------------------------------------------------
(* The source file *)

\* The sources imported: a clean one, and ones with rows whose parse or save
\* raises (fail), rows without an id (empty), before and after the first
\* checkpoint, and one whose compressed stream cannot be read from row
\* `broken` on (0: readable to the end).
Sources == {[fail |-> {}, empty |-> {}, broken |-> 0],
            [fail |-> {1}, empty |-> {}, broken |-> 0],
            [fail |-> {NRows}, empty |-> {2}, broken |-> 0],
            [fail |-> {1}, empty |-> {2}, broken |-> NRows]}

RowKind(src, r) ==
    IF r \in src.empty THEN "empty"
    ELSE IF r \in src.fail THEN "fail"
    ELSE "ok"

\* The limit arguments a caller passes: None (0), or a limit below the size.
Limits == {0, NRows - 1}

NoResult == [kind |-> "none"]

Returned(ok, ic, ec) ==
    [kind |-> "dict", success |-> ok, imported_count |-> ic, error_count |-> ec]

----------------------------------------------------------------------------
(* import_data_type *)

\* A variant that skips the row at the checkpoint position too.
SkipsRow_Through(r, rf) == r <= rf

\* "if row_num < resume_from: continue"
SkipsRow(r, rf) == r < rf

\* "if limit and row_num > limit: break"
PastLimit(r, lim) == lim # 0 /\ r > lim

\* "if checkpoint and imported_count % 1000 == 0"
SavesCheckpoint(ic) == ic % CheckpointEvery = 0

\* A variant that clears the checkpoint whether or not a limit was given.
ClearsCheckpoint_Always(lim) == TRUE

\* "if checkpoint and not limit: checkpoint.clear_checkpoint(data_type)"
ClearsCheckpoint(lim) == lim = 0

Idle == pc \in {"idle", "returned", "raised", "killed"}

ImportInit ==
    /\ source \in Sources
    /\ cpFile = NoFile
    /\ pc = "idle"
    /\ limit = 0
    /\ row_num = 0
    /\ resume_from = 0
    /\ imported_count = 0
    /\ error_count = 0
    /\ result = NoResult
    /\ started = "none"
    /\ after_kill = FALSE
    /\ full_result = NoResult
    /\ save_old = None
    /\ save_new = None
    /\ start_file = NoFile

\* The call up to the loop: the checkpoint is loaded and, when there is one,
\* get_resume_info is called before its fields are read.
StartImport(lim) ==
    /\ Idle
    /\ limit' = lim
    /\ after_kill' = (pc = "killed" /\ started = "fresh" /\ limit = 0)
    /\ row_num' = 0
    /\ result' = NoResult
    /\ save_old' = None
    /\ save_new' = None
    /\ start_file' = cpFile
    /\ LET cp_data == load_checkpoint(cpFile) IN
       IF cp_data = None
       THEN /\ pc' = "loop"
            /\ resume_from' = 0
            /\ imported_count' = 0
            /\ error_count' = 0
            /\ started' = "fresh"
       ELSE IF get_resume_info_raises(cpFile)
       THEN /\ pc' = "raised"
            /\ resume_from' = 0
            /\ imported_count' = 0
            /\ error_count' = 0
            /\ started' = "resumed"
       ELSE /\ pc' = "loop"
            /\ resume_from' = cp_data.row_number
            /\ imported_count' = cp_data.imported_count
            /\ error_count' = cp_data.error_count
            /\ started' = "resumed"
    /\ UNCHANGED <<source, cpFile, full_result>>
    /\ UNCHANGED OutsideImport

\* One iteration of "for row_num, row in enumerate(reader, 1)".
ProcessRow ==
    /\ pc = "loop"
    /\ row_num < NRows
    /\ row_num + 1 # source.broken
    /\ LET r == row_num + 1 IN
       /\ row_num' = r
       /\ IF SkipsRow(r, resume_from)
          THEN UNCHANGED <<pc, imported_count, error_count, cpFile, save_old, save_new>>
          ELSE IF PastLimit(r, limit)
          THEN /\ pc' = "after_loop"
               /\ UNCHANGED <<imported_count, error_count, cpFile, save_old, save_new>>
          ELSE IF RowKind(source, r) = "empty"
          THEN UNCHANGED <<pc, imported_count, error_count, cpFile, save_old, save_new>>
          ELSE IF RowKind(source, r) = "fail"
          THEN /\ error_count' = error_count + 1
               /\ UNCHANGED <<pc, imported_count, cpFile, save_old, save_new>>
          ELSE /\ imported_count' = imported_count + 1
               /\ UNCHANGED error_count
               /\ IF SavesCheckpoint(imported_count + 1)
                  THEN \* save_checkpoint: open(path, 'w') empties the file
                       /\ pc' = "saving"
                       /\ save_old' = cpFile
                       /\ save_new' = Checkpoint(r, r, imported_count + 1, error_count)
                       /\ cpFile' = Unreadable
                  ELSE UNCHANGED <<pc, cpFile, save_old, save_new>>
    /\ UNCHANGED <<source, limit, resume_from, result, started, after_kill, full_result,
                   start_file>>
    /\ UNCHANGED OutsideImport

\* save_checkpoint: json.dump and the close of the file.
FinishSave ==
    /\ pc = "saving"
    /\ cpFile' = Checkpoint(row_num, row_num, imported_count, error_count)
    /\ pc' = "loop"
    /\ save_old' = None
    /\ save_new' = None
    /\ UNCHANGED <<source, limit, row_num, resume_from, imported_count,
                   error_count, result, started, after_kill, full_result,
                   start_file>>
    /\ UNCHANGED OutsideImport

\* The reader is exhausted: the loop ends.
EndOfSource ==
    /\ pc = "loop"
    /\ row_num = NRows
    /\ pc' = "after_loop"
    /\ UNCHANGED <<source, cpFile, limit, row_num, resume_from, imported_count,
                   error_count, result, started, after_kill, full_result,
                   save_old, save_new, start_file>>
    /\ UNCHANGED OutsideImport

\* After the loop: the checkpoint is cleared when no limit was given, and the
\* counts are returned.
FinishImport ==
    /\ pc = "after_loop"
    /\ cpFile' = IF ClearsCheckpoint(limit) THEN clear_checkpoint(cpFile) ELSE cpFile
    /\ result' = Returned(TRUE, imported_count, error_count)
    /\ pc' = "returned"
    /\ full_result' = IF started = "fresh" /\ limit = 0
                      THEN Returned(TRUE, imported_count, error_count)
                      ELSE full_result
    /\ row_num' = 0
    /\ resume_from' = 0
    /\ imported_count' = 0
    /\ error_count' = 0
    /\ UNCHANGED <<source, limit, started, after_kill, save_old, save_new,
                   start_file>>
    /\ UNCHANGED OutsideImport

\* Reading the next row raises (the outer "except Exception"): the call
\* returns success False with the counts so far.
StreamFault ==
    /\ pc = "loop"
    /\ row_num < NRows
    /\ row_num + 1 = source.broken
    /\ result' = Returned(FALSE, imported_count, error_count)
    /\ pc' = "returned"
    /\ row_num' = 0
    /\ resume_from' = 0
    /\ imported_count' = 0
    /\ error_count' = 0
    /\ UNCHANGED <<source, cpFile, limit, started, after_kill, full_result,
                   save_old, save_new, start_file>>
    /\ UNCHANGED OutsideImport

\* The process is stopped from outside; its locals are lost, the file stays
\* as it is.
Kill ==
    /\ pc \in {"loop", "saving", "after_loop"}
    /\ pc' = "killed"
    /\ row_num' = 0
    /\ resume_from' = 0
    /\ imported_count' = 0
    /\ error_count' = 0
    /\ UNCHANGED <<source, cpFile, limit, result, started, after_kill, full_result,
                   save_old, save_new, start_file>>
    /\ UNCHANGED OutsideImport

\* A checkpoint file that lacks a key (written by another tool or version,
\* or edited between runs).
DropField(f) ==
    /\ Idle
    /\ cpFile.kind = "json"
    /\ cpFile.fields = AllFields
    /\ cpFile' = [cpFile EXCEPT !.fields = @ \ {f}]
    /\ UNCHANGED <<source, pc, limit, row_num, resume_from, imported_count,
                   error_count, result, started, after_kill, full_result,
                   save_old, save_new, start_file>>
    /\ UNCHANGED OutsideImport

DroppedFields == {"row_number", "timestamp", "version"}

ImportNext ==
    \/ \E lim \in Limits : StartImport(lim)
    \/ ProcessRow
    \/ FinishSave
    \/ EndOfSource
    \/ FinishImport
    \/ StreamFault
    \/ Kill
    \/ \E f \in DroppedFields : DropField(f)

----------------------------------------------------------------------------
(* CourtFinderCLI.import_csv_data and BulkCSVParser.parse_file *)

\* BulkCSVParser.__init__(max_errors=100)
MaxErrors == 100

StreamLen == 101

Executions == {1, 2}

\* The data types imported, in the order of the imports.
First == "courts"
Second == "dockets"
DataTypes == {First, Second}

\* A csv file: its rows 1..perr make parse_row raise ParseError (a required
\* field does not parse), row `inv` makes the model's constructor raise
\* ValueError, row `serr` makes the store's save raise StorageError; the
\* others parse and save.
Stream(p, v, s) == [perr |-> p, inv |-> v, serr |-> s]

FirstStreams == {Stream(p, 0, 0) : p \in {0, MaxErrors - 1, MaxErrors}}

SecondStreams == {Stream(p, v, s) : p \in {0, 1}, v \in {0, StreamLen},
                                    s \in {0, StreamLen - 1}}

CliRowKind(st, r) ==
    IF r <= st.perr THEN "parse_error"
    ELSE IF r = st.inv THEN "invalid"
    ELSE IF r = st.serr THEN "save_error"
    ELSE "ok"

\* The limit arguments: None (0), or a limit below the size of the file.
CliLimits == {0, StreamLen - 1}

\* What import_csv_data returned, with the number of rows parse_file had
\* read from the file by then.
CliReturned(ok, ic, ec, rd, lim) ==
    [kind |-> "dict", success |-> ok, imported_count |-> ic, error_count |-> ec,
     read |-> rd, limit |-> lim]

\* CourtFinderCLI.__init__: self.csv_parser = BulkCSVParser()
NewCli ==
    [max_errors |-> MaxErrors, pc |-> "idle", data_type |-> "none", limit |-> 0,
     pos |-> 0, row_count |-> 0, imported_count |-> 0, error_count |-> 0,
     outcome |-> [t \in DataTypes |-> NoResult]]

CliInit ==
    /\ streams \in {[e \in Executions |->
                        [t \in DataTypes |-> IF t = First THEN f[e] ELSE sec]] :
                     f \in [Executions -> FirstStreams], sec \in SecondStreams}
    /\ cli = [e \in Executions |-> NewCli]

\* The executions run one after the other.
CliTurn(e) == \A d \in Executions : d < e => cli[d].outcome[Second] # NoResult

\* The next data type an execution imports.
NextType(c) ==
    IF c.outcome[First] = NoResult THEN First
    ELSE IF c.outcome[Second] = NoResult THEN Second
    ELSE "none"

\* import_csv_data up to the loop (the csv structure is valid).
CliStart(e, lim) ==
    /\ CliTurn(e)
    /\ cli[e].pc = "idle"
    /\ NextType(cli[e]) # "none"
    /\ cli' = [cli EXCEPT ![e] = [@ EXCEPT !.pc = "running",
                                            !.data_type = NextType(cli[e]),
                                            !.limit = lim,
                                            !.pos = 0,
                                            !.row_count = 0,
                                            !.imported_count = 0,
                                            !.error_count = 0]]
    /\ UNCHANGED streams
    /\ UNCHANGED OutsideCli

\* "if limit and row_count >= limit: break"
CliPastLimit(rc, lim) == lim # 0 /\ rc >= lim

\* "if self.max_errors > 0: self.max_errors -= 1"
AfterParseError(m) == IF m > 0 THEN m - 1 ELSE m

\* "if self.max_errors <= 0: raise ParseError('Too many parsing errors')",
\* under "if self.max_errors > 0"
TooManyErrors(m) == m > 0 /\ AfterParseError(m) <= 0

\* import_csv_data returns.
CliReturn(c, ok) ==
    [c EXCEPT !.pc = "idle",
              !.outcome[c.data_type] =
                  CliReturned(ok, c.imported_count, c.error_count, c.pos, c.limit)]

\* One row of parse_file's reader, with the body of import_csv_data's loop
\* for the object it yields.
CliRow(e) ==
    /\ cli[e].pc = "running"
    /\ cli[e].pos < StreamLen
    /\ LET c == cli[e]
           r == c.pos + 1
           kind == CliRowKind(streams[e][c.data_type], r)
           at == [c EXCEPT !.pos = r]
       IN  cli' = [cli EXCEPT ![e] =
               IF CliPastLimit(c.row_count, c.limit)
               THEN CliReturn(at, TRUE)
               ELSE IF kind = "parse_error"
               THEN IF TooManyErrors(c.max_errors)
                    THEN CliReturn([at EXCEPT !.max_errors = AfterParseError(c.max_errors)],
                                   FALSE)
                    ELSE [at EXCEPT !.max_errors = AfterParseError(c.max_errors)]
               ELSE IF kind = "invalid"
               THEN CliReturn(at, FALSE)
               ELSE IF kind = "save_error"
               THEN [at EXCEPT !.error_count = @ + 1, !.row_count = @ + 1]
               ELSE [at EXCEPT !.imported_count = @ + 1, !.row_count = @ + 1]]
    /\ UNCHANGED streams
    /\ UNCHANGED OutsideCli

\* The reader is exhausted: import_csv_data returns success True.
CliFinish(e) ==
    /\ cli[e].pc = "running"
    /\ cli[e].pos = StreamLen
    /\ cli' = [cli EXCEPT ![e] = CliReturn(cli[e], TRUE)]
    /\ UNCHANGED streams
    /\ UNCHANGED OutsideCli

CliNext ==
    \/ \E e \in Executions, lim \in CliLimits : CliStart(e, lim)
    \/ \E e \in Executions : CliRow(e)
    \/ \E e \in Executions : CliFinish(e)

\* The variables of a part that a specification does not run stay as here.
ImportIdle ==
    /\ source = [fail |-> {}, empty |-> {}, broken |-> 0]
    /\ cpFile = NoFile
    /\ pc = "idle"
    /\ limit = 0
    /\ row_num = 0
    /\ resume_from = 0
    /\ imported_count = 0
    /\ error_count = 0
    /\ result = NoResult
    /\ started = "none"
    /\ after_kill = FALSE
    /\ full_result = NoResult
    /\ save_old = None
    /\ save_new = None
    /\ start_file = NoFile

CliIdle ==
    /\ streams = [e \in Executions |-> [t \in DataTypes |-> Stream(0, 0, 0)]]
    /\ cli = [e \in Executions |-> NewCli]

----------------------------------------------------------------------------
(* Python values of record fields, and the conversions of models.py *)

\* IndexKeyLen is the key length of "str(value)[:100]".
IndexKeyLen == 100

PyStr(s) == [kind |-> "str", v |-> s]
PyInt(n) == [kind |-> "int", v |-> n]
PyFloat(n) == [kind |-> "float", v |-> n]
PyBool(b) == [kind |-> "bool", v |-> b]
PyList(s) == [kind |-> "list", v |-> s]
Date(y, m, d) == [kind |-> "date", v |-> <<y, m, d>>]
Datetime(y, m, d, hh, mm, ss, us) ==
    [kind |-> "datetime", v |-> <<y, m, d, hh, mm, ss, us>>]
Enum(cls, name) == [kind |-> "enum", cls |-> cls, v |-> name]

\* An exception raised in place of a value.
Raised == [kind |-> "raised"]

\* bool(value), as in "x if value else None"
Truthy(val) ==
    CASE val.kind = "none" -> FALSE
      [] val.kind = "str" -> val.v # ""
      [] val.kind \in {"int", "float"} -> val.v # 0
      [] val.kind = "bool" -> val.v
      [] val.kind = "list" -> val.v # <<>>
      [] OTHER -> TRUE

\* The members of the two enumerations, with their values.
EnumValues ==
    [PrecedentialStatus |->
        [PUBLISHED |-> "Published", UNPUBLISHED |-> "Unpublished",
         ERRATA |-> "Errata", SEPARATE |-> "Separate",
         IN_CHAMBERS |-> "In-chambers", RELATING_TO |-> "Relating-to",
         UNKNOWN |-> "Unknown"],
     OpinionType |->
        [COMBINED |-> "010combined", UNANIMOUS |-> "015unamimous",
         LEAD |-> "020lead", PLURALITY |-> "025plurality",
         CONCURRENCE |-> "030concurrence",
         CONCUR_IN_PART |-> "035concurrenceinpart", DISSENT |-> "040dissent",
         ADDENDUM |-> "050addendum", REMITTUR |-> "060remittitur",
         REHEARING |-> "070rehearing", ON_THE_MERITS |-> "080onthemerits",
         ON_MOTION_TO_STRIKE |-> "090onmotiontostrike",
         TRIAL_COURT |-> "100trialcourt", UNKNOWN |-> "999unknown"]]

\* member.value
EnumValue(val) ==
    IF val.kind = "enum" THEN PyStr(EnumValues[val.cls][val.v]) ELSE Raised

\* EnumClass(value): the member with that value, or ValueError
EnumOf(cls, j) ==
    LET names == {n \in DOMAIN EnumValues[cls] : PyStr(EnumValues[cls][n]) = j}
    IN  IF names = {} THEN Raised ELSE Enum(cls, CHOOSE n \in names : TRUE)

\* "%02d", "%04d", "%06d"
Pad(n, width) ==
    LET s == ToString(n)
        zeros == "000000"
    IN  IF Len(s) >= width THEN s ELSE SubSeq(zeros, 1, width - Len(s)) \o s

\* date.isoformat and datetime.isoformat (naive datetimes, separator "T",
\* the microseconds only when they are not zero)
isoformat(val) ==
    CASE val.kind = "date" ->
            PyStr(Pad(val.v[1], 4) \o "-" \o Pad(val.v[2], 2) \o "-" \o Pad(val.v[3], 2))
      [] val.kind = "datetime" ->
            PyStr(Pad(val.v[1], 4) \o "-" \o Pad(val.v[2], 2) \o "-" \o Pad(val.v[3], 2)
                \o "T" \o Pad(val.v[4], 2) \o ":" \o Pad(val.v[5], 2) \o ":"
                \o Pad(val.v[6], 2)
                \o (IF val.v[7] = 0 THEN "" ELSE "." \o Pad(val.v[7], 6)))
      [] OTHER -> Raised

DigitChars == "0123456789"

\* The value of each digit character.
DigitValues ==
    [c \in {SubSeq(DigitChars, i, i) : i \in 1..Len(DigitChars)} |->
        (CHOOSE i \in 1..Len(DigitChars) : SubSeq(DigitChars, i, i) = c) - 1]

IsDigit(c) == c \in DOMAIN DigitValues

DigitOf(c) == DigitValues[c]

AllDigits(s) == \A i \in 1..Len(s) : IsDigit(SubSeq(s, i, i))

RECURSIVE ParseInt(_)
ParseInt(s) ==
    IF s = "" THEN 0
    ELSE 10 * ParseInt(SubSeq(s, 1, Len(s) - 1)) + DigitOf(SubSeq(s, Len(s), Len(s)))

\* "YYYY-MM-DD" at the head of s
IsoDateAt(s) ==
    /\ Len(s) >= 10
    /\ AllDigits(SubSeq(s, 1, 4)) /\ SubSeq(s, 5, 5) = "-"
    /\ AllDigits(SubSeq(s, 6, 7)) /\ SubSeq(s, 8, 8) = "-"
    /\ AllDigits(SubSeq(s, 9, 10))
    /\ ParseInt(SubSeq(s, 6, 7)) \in 1..12
    /\ ParseInt(SubSeq(s, 9, 10)) \in 1..31

\* "HH:MM:SS" or "HH:MM:SS.ffffff" from position 12 of s
IsoTimeAt(s) ==
    /\ Len(s) \in {19, 26}
    /\ AllDigits(SubSeq(s, 12, 13)) /\ SubSeq(s, 14, 14) = ":"
    /\ AllDigits(SubSeq(s, 15, 16)) /\ SubSeq(s, 17, 17) = ":"
    /\ AllDigits(SubSeq(s, 18, 19))
    /\ Len(s) = 26 => SubSeq(s, 20, 20) = "." /\ AllDigits(SubSeq(s, 21, 26))

\* date.fromisoformat
date_fromisoformat(j) ==
    IF j.kind = "str" /\ Len(j.v) = 10 /\ IsoDateAt(j.v)
    THEN Date(ParseInt(SubSeq(j.v, 1, 4)), ParseInt(SubSeq(j.v, 6, 7)),
              ParseInt(SubSeq(j.v, 9, 10)))
    ELSE Raised

\* datetime.fromisoformat
datetime_fromisoformat(j) ==
    IF j.kind = "str" /\ IsoDateAt(j.v) /\ (Len(j.v) = 10 \/ IsoTimeAt(j.v))
    THEN LET s == j.v IN
         Datetime(ParseInt(SubSeq(s, 1, 4)), ParseInt(SubSeq(s, 6, 7)),
                  ParseInt(SubSeq(s, 9, 10)),
                  IF Len(s) = 10 THEN 0 ELSE ParseInt(SubSeq(s, 12, 13)),
                  IF Len(s) = 10 THEN 0 ELSE ParseInt(SubSeq(s, 15, 16)),
                  IF Len(s) = 10 THEN 0 ELSE ParseInt(SubSeq(s, 18, 19)),
                  IF Len(s) = 26 THEN ParseInt(SubSeq(s, 21, 26)) ELSE 0)
    ELSE Raised

RECURSIVE Join(_)
Join(s) ==
    IF s = <<>> THEN ""
    ELSE IF Len(s) = 1 THEN ToString(s[1])
    ELSE ToString(s[1]) \o ", " \o Join(Tail(s))

\* str(value)
str(val) ==
    CASE val.kind = "str" -> val.v
      [] val.kind = "int" -> ToString(val.v)
      [] val.kind = "float" -> ToString(val.v) \o ".0"
      [] val.kind = "bool" -> IF val.v THEN "True" ELSE "False"
      [] val.kind = "list" -> "[" \o Join(val.v) \o "]"
      [] val.kind = "none" -> "None"
      [] val.kind = "date" -> isoformat(val).v
      [] val.kind = "datetime" ->
            LET s == isoformat(val).v
            IN  SubSeq(s, 1, 10) \o " " \o SubSeq(s, 12, Len(s))
      [] val.kind = "enum" -> val.cls \o "." \o val.v
      [] OTHER -> "<exception>"

\* str(value)[:100]
IndexKey(val) ==
    LET s == str(val)
    IN  IF Len(s) <= IndexKeyLen THEN s ELSE SubSeq(s, 1, IndexKeyLen)

----------------------------------------------------------------------------
(* The record types of models.py *)

Classes == {"Court", "Docket", "OpinionCluster", "Opinion", "Citation", "Person"}

\* Fields of type datetime, written with isoformat and read with
\* datetime.fromisoformat.
DatetimeFields(cls) ==
    IF cls \in {"Docket", "OpinionCluster", "Opinion", "Person"}
    THEN {"date_created", "date_modified"} ELSE {}

\* Fields of type Optional[datetime].
OptDatetimeFields(cls) == IF cls = "Docket" THEN {"date_last_index"} ELSE {}

\* Fields of type Optional[date].
OptDateFields(cls) ==
    CASE cls = "Court" -> {"start_date", "end_date"}
      [] cls = "Docket" -> {"date_filed", "date_terminated", "date_last_filing",
                            "date_cert_granted", "date_cert_denied", "date_argued",
                            "date_reargued", "date_reargument_denied"}
      [] cls = "OpinionCluster" -> {"date_filed", "date_blocked"}
      [] cls = "Person" -> {"date_dob", "date_dod"}
      [] OTHER -> {}

\* Fields of an enumeration type, required (Opinion.type) and optional
\* (OpinionCluster.precedential_status).
EnumFields(cls) == IF cls = "Opinion" THEN {"type"} ELSE {}

OptEnumFields(cls) == IF cls = "OpinionCluster" THEN {"precedential_status"} ELSE {}

EnumClass(f) == IF f = "type" THEN "OpinionType" ELSE "PrecedentialStatus"

\* Fields stored as they are.
PlainFields(cls) ==
    CASE cls = "Court" ->
            {"id", "full_name", "short_name", "jurisdiction", "position",
             "citation_string", "notes"}
      [] cls = "Docket" ->
            {"id", "court_id", "case_name", "docket_number", "source",
             "appeal_from_id", "case_name_short", "case_name_full", "slug",
             "appeal_from_str", "assigned_to_str", "referred_to_str", "panel_str",
             "docket_number_core", "cause", "nature_of_suit", "jury_demand",
             "jurisdiction_type", "federal_dn_case_type", "federal_dn_office_code",
             "federal_defendant_number"}
      [] cls = "OpinionCluster" ->
            {"id", "docket_id", "judges", "date_filed_is_approximate", "slug",
             "case_name", "case_name_short", "case_name_full", "scdb_id",
             "scdb_decision_direction", "scdb_votes_majority",
             "scdb_votes_minority", "source", "procedural_history", "attorneys",
             "nature_of_suit", "posture", "syllabus", "headnotes", "summary",
             "disposition", "history", "other_dates", "cross_reference",
             "correction", "citation_count", "blocked", "sub_opinions"}
      [] cls = "Opinion" ->
            {"id", "cluster_id", "sha1", "page_count", "download_url",
             "local_path", "plain_text", "html", "html_lawbox", "html_columbia",
             "html_anon_2020", "xml_harvard", "html_with_citations",
             "extracted_by_ocr", "author_id", "per_curiam", "joined_by"}
      [] cls = "Citation" ->
            {"cited_opinion_id", "citing_opinion_id", "depth", "quoted",
             "parenthetical_id", "parenthetical_text"}
      [] cls = "Person" ->
            {"id", "name_first", "name_middle", "name_last", "name_suffix",
             "date_granularity_dob", "date_granularity_dod", "dob_city",
             "dob_state", "dod_city", "dod_state", "gender", "religion",
             "ftm_total_received", "ftm_eid", "has_photo", "is_alias_of"}

\* The dataclass fields of a record type.
Fields(cls) ==
    PlainFields(cls) \cup DatetimeFields(cls) \cup OptDatetimeFields(cls)
        \cup OptDateFields(cls) \cup EnumFields(cls) \cup OptEnumFields(cls)

\* The field defaults that are not None.
Default(cls, f) ==
    CASE cls = "OpinionCluster" /\ f \in {"date_filed_is_approximate", "blocked"} -> PyBool(FALSE)
      [] cls = "OpinionCluster" /\ f = "citation_count" -> PyInt(0)
      [] cls = "OpinionCluster" /\ f = "sub_opinions" -> PyList(<<>>)
      [] cls = "Opinion" /\ f \in {"extracted_by_ocr", "per_curiam"} -> PyBool(FALSE)
      [] cls = "Opinion" /\ f = "joined_by" -> PyList(<<>>)
      [] cls = "Citation" /\ f = "quoted" -> PyBool(FALSE)
      [] cls = "Person" /\ f = "has_photo" -> PyBool(FALSE)
      [] OTHER -> None

\* The fields __post_init__ requires to be truthy.
RequiredTruthy(cls) ==
    CASE cls = "Court" -> {"id", "full_name", "jurisdiction"}
      [] cls = "Docket" -> {"id", "court_id", "case_name", "docket_number"}
      [] cls = "OpinionCluster" -> {"id", "docket_id"}
      [] cls = "Opinion" -> {"id", "cluster_id", "type"}
      [] cls = "Citation" -> {"cited_opinion_id", "citing_opinion_id"}
      [] cls = "Person" -> {"id"}

\* __post_init__ raises ValueError.
post_init_raises(cls, obj) ==
    \/ \E f \in RequiredTruthy(cls) : ~Truthy(obj[f])
    \/ cls = "Citation" /\ obj["depth"].v < 0

\* The constructor with keyword arguments: the other fields take their
\* defaults.
New(cls, args) ==
    [f \in Fields(cls) |-> IF f \in DOMAIN args THEN args[f] ELSE Default(cls, f)]

\* One entry of the dict to_dict builds.
to_dict_value(cls, f, val) ==
    CASE f \in DatetimeFields(cls) -> isoformat(val)
      [] f \in OptDateFields(cls) \cup OptDatetimeFields(cls) ->
            IF Truthy(val) THEN isoformat(val) ELSE None
      [] f \in EnumFields(cls) -> EnumValue(val)
      [] f \in OptEnumFields(cls) -> IF Truthy(val) THEN EnumValue(val) ELSE None
      [] OTHER -> val

to_dict(cls, obj) == [f \in Fields(cls) |-> to_dict_value(cls, f, obj[f])]

\* A variant that passes the stored value on without converting it.
from_dict_value_Raw(cls, f, j) == j

\* One argument of the constructor call in from_dict.
from_dict_value(cls, f, j) ==
    CASE f \in DatetimeFields(cls) -> datetime_fromisoformat(j)
      [] f \in OptDateFields(cls) ->
            IF Truthy(j) THEN date_fromisoformat(j) ELSE None
      [] f \in OptDatetimeFields(cls) ->
            IF Truthy(j) THEN datetime_fromisoformat(j) ELSE None
      [] f \in EnumFields(cls) -> EnumOf(EnumClass(f), j)
      [] f \in OptEnumFields(cls) ->
            IF Truthy(j) THEN EnumOf(EnumClass(f), j) ELSE None
      [] OTHER -> j

\* from_dict(data): the record, or Raised when a conversion or the
\* constructor raises.
from_dict(cls, data) ==
    LET obj == [f \in Fields(cls) |-> from_dict_value(cls, f, data[f])]
    IN  IF (\E f \in Fields(cls) : obj[f] = Raised) \/ post_init_raises(cls, obj)
        THEN Raised
        ELSE obj

----------------------------------------------------------------------------
(* FileStorage and CourtFinderStorage (storage.py) *)

MaxId == 2

Ids == 1..MaxId

Stores == {"courts", "dockets", "opinion_clusters", "opinions", "citations", "people"}

\* CourtFinderStorage.__init__: the store of each record type.
StoreOf(cls) ==
    CASE cls = "Court" -> "courts"
      [] cls = "Docket" -> "dockets"
      [] cls = "OpinionCluster" -> "opinion_clusters"
      [] cls = "Opinion" -> "opinions"
      [] cls = "Citation" -> "citations"
      [] cls = "Person" -> "people"

ClassOf(store) == CHOOSE cls \in Classes : StoreOf(cls) = store

EmptyDict == [k \in {} |-> None]

Range(s) == {s[i] : i \in DOMAIN s}

\* list.remove(x) on a list without duplicates
Remove(s, x) == SelectSeq(s, LAMBDA y : y # x)

\* FileStorage.__init__ on an empty directory. files are the data files by
\* item id, id_index the keys of the id index in insertion order,
\* field_indexes the field indexes in memory and index_files the files of
\* the index directory by name.
NewFileStorage ==
    [files |-> EmptyDict, id_index |-> <<>>, field_indexes |-> EmptyDict,
     index_files |-> EmptyDict]

\* "if value is not None and field not in ['date_created', 'date_modified']"
IsIndexed(f, value) == value # None /\ f \notin {"date_created", "date_modified"}

\* A variant that keeps the keys in a list and appends at every assignment.
SetKey_Append(keys, k) == Append(keys, k)

\* "self.id_index[str(item_id)] = {...}" on the keys of the dictionary: a
\* key already present keeps its place, a new one is added at the end.
SetKey(keys, k) == IF k \in Range(keys) THEN keys ELSE Append(keys, k)

_update_indexes(fs, cls, item_id, item) ==
    LET sid == str(item_id)
        item_data == to_dict(cls, item)
        indexed == {f \in DOMAIN item_data : IsIndexed(f, item_data[f])}
        old == fs.field_indexes
        Updated(f) ==
            LET index == IF f \in DOMAIN old THEN old[f] ELSE EmptyDict
                str_value == IndexKey(item_data[f])
                ids == IF str_value \in DOMAIN index THEN index[str_value] ELSE <<>>
            IN  [k \in DOMAIN index \cup {str_value} |->
                    IF k # str_value THEN index[k]
                    ELSE IF sid \in Range(ids) THEN ids ELSE Append(ids, sid)]
    IN  [fs EXCEPT
            !.id_index = SetKey(@, sid),
            !.field_indexes = [f \in DOMAIN old \cup indexed |->
                                  IF f \in indexed THEN Updated(f) ELSE old[f]]]

\* self.id_index as json.dump writes it: an object whose members are
\* objects, with the file path of each id (the time of creation is left out).
IdIndexJson(id_index) ==
    [kind |-> "objects", v |-> [k \in Range(id_index) |-> [file_path |-> k \o ".json"]]]

\* A field index as json.dump writes it: an object whose members are arrays
\* of ids.
FieldIndexJson(index) == [kind |-> "arrays", v |-> index]

\* "f'{field}_index.json'"
IndexFileName(field) == field \o "_index.json"

\* _save_indexes: id_index.json is written first, then the file of each
\* field index, the one of a field named id under the same name.
_save_indexes(fs) ==
    LET fields == DOMAIN fs.field_indexes
        names == {"id_index.json"} \cup {IndexFileName(f) : f \in fields}
    IN  [fs EXCEPT !.index_files =
            [n \in DOMAIN @ \cup names |->
                IF \E f \in fields : IndexFileName(f) = n
                THEN FieldIndexJson(fs.field_indexes[CHOOSE f \in fields : IndexFileName(f) = n])
                ELSE IF n = "id_index.json" THEN IdIndexJson(fs.id_index)
                ELSE @[n]]]

\* save raises StorageError: the item has no id, or to_dict raises.
save_raises(cls, item) ==
    \/ "id" \notin DOMAIN item
    \/ item["id"] = None
    \/ \E f \in Fields(cls) : to_dict_value(cls, f, item[f]) = Raised

\* FileStorage.save of an item it does not raise for
save(fs, cls, item) ==
    LET data == to_dict(cls, item)
        file_path == str(item["id"])
        written == [fs EXCEPT !.files =
                       [p \in DOMAIN fs.files \cup {file_path} |->
                           IF p = file_path THEN data ELSE fs.files[p]]]
    IN  _save_indexes(_update_indexes(written, cls, item["id"], item))

\* FileStorage.load: None, the record, or Raised for StorageError
load(fs, cls, item_id) ==
    IF str(item_id) \notin DOMAIN fs.files THEN None
    ELSE from_dict(cls, fs.files[str(item_id)])

\* FileStorage.load_batch: the items that load, in the order of the ids
RECURSIVE load_batch(_, _, _)
load_batch(fs, cls, item_ids) ==
    IF item_ids = <<>> THEN <<>>
    ELSE LET item == load(fs, cls, PyStr(Head(item_ids)))
             rest == load_batch(fs, cls, Tail(item_ids))
         IN  IF item \in {None, Raised} THEN rest ELSE <<item>> \o rest

\* A variant that unlinks the data file and leaves the indexes as they are.
delete_FileOnly(fs, item_id) ==
    [fs EXCEPT !.files = [p \in DOMAIN fs.files \ {str(item_id)} |-> fs.files[p]]]

\* FileStorage.delete
delete(fs, item_id) ==
    LET str_id == str(item_id)
    IN  _save_indexes(
            [fs EXCEPT
                !.files = [p \in DOMAIN fs.files \ {str_id} |-> fs.files[p]],
                !.id_index = Remove(@, str_id),
                !.field_indexes = [f \in DOMAIN @ |->
                                      [k \in DOMAIN @[f] |-> Remove(@[f][k], str_id)]]])

\* FileStorage.find_by_field
find_by_field(fs, cls, field, value) ==
    IF field \notin DOMAIN fs.field_indexes THEN <<>>
    ELSE IF IndexKey(value) \notin DOMAIN fs.field_indexes[field] THEN <<>>
    ELSE load_batch(fs, cls, fs.field_indexes[field][IndexKey(value)])

\* FileStorage.list_all_ids
list_all_ids(fs) == fs.id_index

\* FileStorage.count
count(fs) == Len(fs.id_index)

\* "citation_id = f'{citation.citing_opinion_id}_{citation.cited_opinion_id}'"
citation_id(citation) ==
    PyStr(str(citation["citing_opinion_id"]) \o "_" \o str(citation["cited_opinion_id"]))

\* "citation.id = citation_id"
WithId(citation) ==
    [f \in DOMAIN citation \cup {"id"} |->
        IF f = "id" THEN citation_id(citation) ELSE citation[f]]

----------------------------------------------------------------------------
(* The records saved, and the operations on the store *)

\* Two names of 101 characters that agree on their first 100.
NamePrefix ==
    LET ten == "Court of A" IN
    ten \o ten \o ten \o ten \o ten \o ten \o ten \o ten \o ten \o ten

Variants == {"a", "b"}

Created == Datetime(2024, 1, 2, 3, 4, 5, 0)
Modified == Datetime(2024, 11, 12, 13, 14, 15, 678)

\* The record of a type with id i, in one of two variants that differ in
\* indexed fields and in the optional date, datetime and enumeration fields.
Record(cls, i, variant) ==
    LET a == variant = "a" IN
    CASE cls = "Court" ->
            New(cls, [id |-> PyStr("ca" \o ToString(i)),
                      full_name |-> PyStr(NamePrefix \o (IF a THEN "A" ELSE "B")),
                      short_name |-> PyStr("CA"),
                      jurisdiction |-> PyStr(IF a THEN "F" ELSE "S"),
                      position |-> PyFloat(IF a THEN 1 ELSE 2),
                      citation_string |-> PyStr(""),
                      start_date |-> IF a THEN None ELSE Date(1891, 3, 3)])
      [] cls = "Docket" ->
            New(cls, [id |-> PyInt(i),
                      court_id |-> PyStr(IF a THEN "ca1" ELSE "ca2"),
                      case_name |-> PyStr("Roe v. Doe"),
                      docket_number |-> PyStr("1:24-cv-1"),
                      date_created |-> Created,
                      date_modified |-> IF a THEN Created ELSE Modified,
                      source |-> PyStr("R"),
                      date_filed |-> IF a THEN None ELSE Date(2024, 1, 2),
                      date_last_index |-> IF a THEN None ELSE Modified])
      [] cls = "OpinionCluster" ->
            New(cls, [id |-> PyInt(i),
                      docket_id |-> PyInt(IF a THEN 1 ELSE 2),
                      date_created |-> Created,
                      date_modified |-> Modified,
                      date_filed |-> IF a THEN None ELSE Date(2024, 1, 2),
                      precedential_status |->
                          IF a THEN None ELSE Enum("PrecedentialStatus", "PUBLISHED"),
                      sub_opinions |-> IF a THEN PyList(<<>>) ELSE PyList(<<1, 2>>)])
      [] cls = "Opinion" ->
            New(cls, [id |-> PyInt(i),
                      cluster_id |-> PyInt(IF a THEN 1 ELSE 2),
                      date_created |-> Created,
                      date_modified |-> Modified,
                      type |-> Enum("OpinionType", IF a THEN "LEAD" ELSE "DISSENT"),
                      per_curiam |-> PyBool(~a)])
      [] cls = "Person" ->
            New(cls, [id |-> PyInt(i),
                      date_created |-> Created,
                      date_modified |-> Modified,
                      name_last |-> PyStr(IF a THEN "Hand" ELSE "Friendly"),
                      date_dob |-> IF a THEN None ELSE Date(1872, 1, 27)])

Records(cls) == {Record(cls, i, variant) : i \in Ids, variant \in Variants}

\* Citation(cited_opinion_id, citing_opinion_id, depth, quoted)
Citation(citing, cited, variant) ==
    New("Citation", [cited_opinion_id |-> PyInt(cited),
                     citing_opinion_id |-> PyInt(citing),
                     depth |-> PyInt(IF variant = "a" THEN 1 ELSE 2),
                     quoted |-> PyBool(variant # "a")])

\* The citations saved: each opinion cites the next one, the last the first.
Citations == {Citation(i, (i % MaxId) + 1, variant) : i \in Ids, variant \in Variants}

StoreInit ==
    /\ scope \in {{cls} : cls \in Classes}
    /\ storage = [s \in Stores |-> NewFileStorage]
    /\ saved = [s \in Stores |-> EmptyDict]

\* The record last saved under an id, for the ids not deleted since.
Remember(store, item) ==
    [saved EXCEPT ![store] =
        [k \in DOMAIN @ \cup {str(item["id"])} |->
            IF k = str(item["id"]) THEN item ELSE @[k]]]

Forget(store, item_id) ==
    [saved EXCEPT ![store] = [k \in DOMAIN @ \ {str(item_id)} |-> @[k]]]

\* CourtFinderStorage.save_court, save_docket, save_opinion_cluster,
\* save_opinion and save_person
save_record(cls, item) ==
    /\ cls \in scope \ {"Citation"}
    /\ ~save_raises(cls, item)
    /\ storage' = [storage EXCEPT ![StoreOf(cls)] = save(@, cls, item)]
    /\ saved' = Remember(StoreOf(cls), item)
    /\ UNCHANGED scope
    /\ UNCHANGED OutsideStore

\* CourtFinderStorage.save_citation
save_citation(citation) ==
    /\ "Citation" \in scope
    /\ ~save_raises("Citation", WithId(citation))
    /\ storage' = [storage EXCEPT !["citations"] = save(@, "Citation", WithId(citation))]
    /\ saved' = Remember("citations", WithId(citation))
    /\ UNCHANGED scope
    /\ UNCHANGED OutsideStore

\* FileStorage.delete on the store of a record type
delete_record(cls, item_id) ==
    /\ cls \in scope
    /\ storage' = [storage EXCEPT ![StoreOf(cls)] = delete(@, item_id)]
    /\ saved' = Forget(StoreOf(cls), item_id)
    /\ UNCHANGED scope
    /\ UNCHANGED OutsideStore

\* The ids a record type is stored under.
ItemIds(cls) ==
    CASE cls = "Court" -> {PyStr("ca" \o ToString(i)) : i \in Ids}
      [] cls = "Citation" -> {citation_id(c) : c \in Citations}
      [] OTHER -> {PyInt(i) : i \in Ids}

StoreNext ==
    \/ \E cls \in Classes \ {"Citation"} : \E item \in Records(cls) : save_record(cls, item)
    \/ \E citation \in Citations : save_citation(citation)
    \/ \E cls \in Classes : \E item_id \in ItemIds(cls) : delete_record(cls, item_id)

StoreIdle ==
    /\ scope = {}
    /\ storage = [s \in Stores |-> NewFileStorage]
    /\ saved = [s \in Stores |-> EmptyDict]

----------------------------------------------------------------------------
(* CourtFinderSearch: the citation queries and get_citation_network *)

MaxOpinion == 3

MaxCitations == 3

OpinionIds == 1..MaxOpinion

\* SearchFilter.matches for SearchOperator.EQUALS
matches(obj, field, value) ==
    IF obj[field] = None THEN value = None ELSE obj[field] = value

\* _search_storage with one EQUALS filter, no sort and no pagination: the
\* stored records that match, in the order of list_all_ids.
RECURSIVE FilterLoaded(_, _, _, _, _)
FilterLoaded(fs, cls, all_ids, field, value) ==
    IF all_ids = <<>> THEN <<>>
    ELSE LET obj == load(fs, cls, PyStr(Head(all_ids)))
             rest == FilterLoaded(fs, cls, Tail(all_ids), field, value)
         IN  IF obj = None \/ ~matches(obj, field, value) THEN rest
             ELSE <<obj>> \o rest

_search_storage(store, field, value) ==
    FilterLoaded(storage[store], ClassOf(store), list_all_ids(storage[store]),
                 field, value)

\* CourtFinderSearch.find_citations_by_opinion
find_citations_by_opinion(opinion_id) ==
    LET citing_citations == _search_storage("citations", "cited_opinion_id", opinion_id)
        cited_citations == _search_storage("citations", "citing_opinion_id", opinion_id)
    IN  citing_citations \o cited_citations

\* CourtFinderStorage.get_opinion
get_opinion(opinion_id) == load(storage["opinions"], "Opinion", opinion_id)

\* A variant that lets the traversal go one hop further.
TooDeep_ByOne(current_depth, depth) == current_depth > depth + 1

\* "if current_depth > depth"
TooDeep(current_depth, depth) == current_depth > depth

\* A variant that never finds an id in the visited set.
AlreadyVisited_Never(network, current_id) == FALSE

\* "current_id in visited"
AlreadyVisited(network, current_id) == current_id \in network.visited

\* collect_citations and its loop over the citations of current_id; network
\* carries the visited set with the node and edge lists, and as history the
\* number of calls of collect_citations and the ids in the order in which
\* they passed the test and were expanded.
RECURSIVE collect_citations(_, _, _, _)
RECURSIVE ForCitations(_, _, _, _, _)
collect_citations(network, current_id, current_depth, depth) ==
    IF TooDeep(current_depth, depth) \/ AlreadyVisited(network, current_id)
    THEN [network EXCEPT !.calls = @ + 1]
    ELSE LET opinion == get_opinion(current_id)
             entered ==
                 [network EXCEPT
                     !.calls = @ + 1,
                     !.expanded = Append(@, current_id),
                     !.visited = @ \cup {current_id},
                     !.nodes = IF opinion # None
                               THEN Append(@, [id |-> current_id,
                                               opinion |-> opinion,
                                               depth |-> current_depth])
                               ELSE @]
         IN  ForCitations(entered, find_citations_by_opinion(current_id),
                          current_id, current_depth, depth)

ForCitations(network, citations, current_id, current_depth, depth) ==
    IF citations = <<>> THEN network
    ELSE LET citation == Head(citations)
             edged == [network EXCEPT !.edges =
                          Append(@, [citing_id |-> citation["citing_opinion_id"],
                                     cited_id |-> citation["cited_opinion_id"],
                                     depth |-> citation["depth"],
                                     quoted |-> citation["quoted"]])]
             citing == IF citation["citing_opinion_id"] # current_id
                       THEN collect_citations(edged, citation["citing_opinion_id"],
                                              current_depth + 1, depth)
                       ELSE edged
             cited == IF citation["cited_opinion_id"] # current_id
                      THEN collect_citations(citing, citation["cited_opinion_id"],
                                             current_depth + 1, depth)
                      ELSE citing
         IN  ForCitations(cited, Tail(citations), current_id, current_depth, depth)

\* The traversal get_citation_network makes, with its history.
Traversal(opinion_id, depth) ==
    collect_citations([visited |-> {}, nodes |-> <<>>, edges |-> <<>>,
                       calls |-> 0, expanded |-> <<>>],
                      opinion_id, 0, depth)

\* CourtFinderSearch.get_citation_network
get_citation_network(opinion_id, depth) ==
    LET network == Traversal(opinion_id, depth)
    IN  [nodes |-> network.nodes, edges |-> network.edges]

\* The opinions and citations of the network sessions: the opinions are
\* saved in the order of their ids and the citations in the order of their
\* (citing, cited) pairs, at most MaxCitations of them.
NetInit ==
    /\ scope = {"Opinion", "Citation"}
    /\ storage = [s \in Stores |-> NewFileStorage]
    /\ saved = [s \in Stores |-> EmptyDict]

PairRank(citing, cited) == (citing - 1) * (MaxOpinion + 1) + cited

NextOpinion(i) == i = Len(storage["opinions"].id_index) + 1

NextCitation(citing, cited) ==
    LET files == storage["citations"].files IN
    /\ Len(storage["citations"].id_index) < MaxCitations
    /\ \A p \in DOMAIN files :
           PairRank(files[p]["citing_opinion_id"].v, files[p]["cited_opinion_id"].v)
               < PairRank(citing, cited)

NetNext ==
    \/ \E i \in OpinionIds :
           NextOpinion(i) /\ save_record("Opinion", Record("Opinion", i, "a"))
    \/ \E citing \in OpinionIds, cited \in OpinionIds :
           NextCitation(citing, cited) /\ save_citation(Citation(citing, cited, "a"))

\* The larger network sessions: one more opinion and one more citation.
DeepOpinionIds == 1..(MaxOpinion + 1)

NextDeepCitation(citing, cited) ==
    LET files == storage["citations"].files IN
    /\ Len(storage["citations"].id_index) < MaxCitations + 1
    /\ \A p \in DOMAIN files :
           PairRank(files[p]["citing_opinion_id"].v, files[p]["cited_opinion_id"].v)
               < PairRank(citing, cited)

DeepNext ==
    \/ \E i \in DeepOpinionIds :
           NextOpinion(i) /\ save_record("Opinion", Record("Opinion", i, "a"))
    \/ \E citing \in DeepOpinionIds, cited \in DeepOpinionIds :
           NextDeepCitation(citing, cited) /\ save_citation(Citation(citing, cited, "a"))

----------------------------------------------------------------------------
(* The domain FileStorage (storage/file_storage.py): record operations     *)
(* under self._lock, a threading.Lock, called from several threads         *)

MaxThreads == 2

MaxBatch == 2

MaxCalls == 2

Threads == 1..MaxThreads

\* "self._lock = threading.Lock()": the lock has no owner and no count, the
\* thread kept here is the one whose acquire succeeded.
Unlocked == 0

RecordId(i) == "rec_00" \o ToString(i)

\* CourtRecord(record_id, court_identifier, case_metadata, column_data) as
\* TestDataFactory.create_sample_court_records builds it.
CourtRecord(record_id, jurisdiction) ==
    [record_id |-> record_id,
     court_identifier |-> [jurisdiction |-> jurisdiction,
                           court_name |-> "Superior Court",
                           court_code |-> None],
     case_metadata |-> [case_number |-> "BC123456", filing_date |-> "2021-02-20",
                        parties |-> "Doe vs Roe", case_type |-> None,
                        status |-> "Pending"],
     raw_data |-> EmptyDict,
     parsed_data |-> EmptyDict,
     column_data |-> <<"col0", "col1">>,
     validation_errors |-> <<>>,
     created_at |-> Created,
     updated_at |-> Modified,
     events |-> <<>>]

\* The sample records: the first of a federal court, the others of state courts.
CourtRecords ==
    {CourtRecord(RecordId(i), IF i = 1 THEN "Federal" ELSE "State") : i \in 1..MaxBatch}

\* The lists of records of up to MaxBatch records, repeated ids included.
RECURSIVE ListsOf(_, _)
ListsOf(S, n) ==
    IF n = 0 THEN {<<>>}
    ELSE LET shorter == ListsOf(S, n - 1)
         IN  shorter \cup {Append(l, x) : l \in {m \in shorter : Len(m) = n - 1}, x \in S}

Batches == ListsOf(CourtRecords, MaxBatch)

\* CourtRecord.to_dict
CourtRecord_to_dict(record) ==
    [record_id |-> record.record_id,
     court_identifier |-> record.court_identifier,
     case_metadata |-> record.case_metadata,
     raw_data |-> record.raw_data,
     parsed_data |-> record.parsed_data,
     column_data |-> record.column_data,
     validation_errors |-> record.validation_errors,
     created_at |-> isoformat(record.created_at),
     updated_at |-> isoformat(record.updated_at)]

\* CourtRecord.from_dict: the record, or Raised
CourtRecord_from_dict(data) ==
    LET created_at == datetime_fromisoformat(data.created_at)
        updated_at == datetime_fromisoformat(data.updated_at)
    IN  IF created_at = Raised \/ updated_at = Raised \/ data.record_id = ""
        THEN Raised
        ELSE [record_id |-> data.record_id,
              court_identifier |-> data.court_identifier,
              case_metadata |-> data.case_metadata,
              raw_data |-> data.raw_data,
              parsed_data |-> data.parsed_data,
              column_data |-> data.column_data,
              validation_errors |-> data.validation_errors,
              created_at |-> created_at,
              updated_at |-> updated_at,
              events |-> <<>>]

\* _safe_write_json on a file of the records directory
_safe_write_json(dir, stem, data) ==
    [p \in DOMAIN dir \cup {stem} |-> IF p = stem THEN data ELSE dir[p]]

\* The body of load_record: DataNotFoundError for a missing file
load_record(record_id) ==
    IF record_id \notin DOMAIN records_path THEN Raised
    ELSE CourtRecord_from_dict(records_path[record_id])

\* The body of count_records: "len(list(self.records_path.glob('*.json')))"
count_records == Cardinality(DOMAIN records_path)

LockInit ==
    /\ _lock = Unlocked
    /\ stack = [t \in Threads |-> <<>>]
    /\ records_path = EmptyDict
    /\ returned = [t \in Threads |-> <<>>]
    /\ written_ids = {}

Top(t) == stack[t][Len(stack[t])]

Push(t, frame) == [stack EXCEPT ![t] = Append(@, frame)]

SetTop(t, frame) == [stack EXCEPT ![t][Len(stack[t])] = frame]

\* A thread that runs no call calls an operation of the storage; the call
\* starts at "with self._file_lock():".
Call(t, op, arg) ==
    /\ stack[t] = <<>>
    /\ Len(returned[t]) < MaxCalls
    /\ stack' = Push(t, [op |-> op, arg |-> arg, at |-> "acquire", i |-> 1])
    /\ UNCHANGED <<_lock, records_path, returned, written_ids>>
    /\ UNCHANGED OutsideLock

\* "with self._lock:" in _file_lock: acquire blocks while the lock is locked,
\* whichever thread locked it.
_file_lock_enter(t) ==
    /\ stack[t] # <<>>
    /\ Top(t).at = "acquire"
    /\ _lock = Unlocked
    /\ _lock' = t
    /\ stack' = SetTop(t, [Top(t) EXCEPT !.at = "body"])
    /\ UNCHANGED <<records_path, returned, written_ids>>
    /\ UNCHANGED OutsideLock

\* save_record: "self._safe_write_json(file_path, data)"
save_record_body(t) ==
    /\ stack[t] # <<>>
    /\ Top(t).op = "save_record"
    /\ Top(t).at = "body"
    /\ records_path' = _safe_write_json(records_path, Top(t).arg.record_id,
                                        CourtRecord_to_dict(Top(t).arg))
    /\ written_ids' = written_ids \cup {Top(t).arg.record_id}
    /\ stack' = SetTop(t, [Top(t) EXCEPT !.at = "release"])
    /\ UNCHANGED <<_lock, returned>>
    /\ UNCHANGED OutsideLock

\* save_records_batch: "for record in records: self.save_record(record)"
save_records_batch_loop(t) ==
    /\ stack[t] # <<>>
    /\ Top(t).op = "save_records_batch"
    /\ Top(t).at = "body"
    /\ Top(t).i <= Len(Top(t).arg)
    /\ stack' = [stack EXCEPT ![t] =
                    Append([@ EXCEPT ![Len(@)].i = @ + 1],
                           [op |-> "save_record", arg |-> Top(t).arg[Top(t).i],
                            at |-> "acquire", i |-> 1])]
    /\ UNCHANGED <<_lock, records_path, returned, written_ids>>
    /\ UNCHANGED OutsideLock

\* save_records_batch: the loop has ended
save_records_batch_end(t) ==
    /\ stack[t] # <<>>
    /\ Top(t).op = "save_records_batch"
    /\ Top(t).at = "body"
    /\ Top(t).i > Len(Top(t).arg)
    /\ stack' = SetTop(t, [Top(t) EXCEPT !.at = "release"])
    /\ UNCHANGED <<_lock, records_path, returned, written_ids>>
    /\ UNCHANGED OutsideLock

\* count_records: the files are counted
count_records_body(t) ==
    /\ stack[t] # <<>>
    /\ Top(t).op = "count_records"
    /\ Top(t).at = "body"
    /\ stack' = SetTop(t, [Top(t) EXCEPT !.at = "release", !.arg = count_records])
    /\ UNCHANGED <<_lock, records_path, returned, written_ids>>
    /\ UNCHANGED OutsideLock

\* The end of "with self._lock:": the lock is released and the call returns
\* to its caller.
_file_lock_exit(t) ==
    /\ stack[t] # <<>>
    /\ Top(t).at = "release"
    /\ _lock' = Unlocked
    /\ stack' = [stack EXCEPT ![t] = SubSeq(@, 1, Len(@) - 1)]
    /\ returned' = IF Len(stack[t]) = 1
                   THEN [returned EXCEPT ![t] = Append(@, [op |-> Top(t).op, arg |-> Top(t).arg])]
                   ELSE returned
    /\ UNCHANGED <<records_path, written_ids>>
    /\ UNCHANGED OutsideLock

\* The steps of a thread inside a call.
Runs(t) ==
    \/ _file_lock_enter(t)
    \/ save_record_body(t)
    \/ save_records_batch_loop(t)
    \/ save_records_batch_end(t)
    \/ count_records_body(t)
    \/ _file_lock_exit(t)

LockNext ==
    \/ \E t \in Threads : \E record \in CourtRecords : Call(t, "save_record", record)
    \/ \E t \in Threads : \E records \in Batches : Call(t, "save_records_batch", records)
    \/ \E t \in Threads : Call(t, "count_records", 0)
    \/ \E t \in Threads : Runs(t)

LockIdle ==
    /\ _lock = Unlocked
    /\ stack = <<>>
    /\ records_path = EmptyDict
    /\ returned = <<>>
    /\ written_ids = {}

----------------------------------------------------------------------------
(* FileStorage.save_batch: _save_single_item on the workers of the pool,   *)
(* and FileStorage.save called from several threads                        *)

MaxWorkers == 2

Workers == 1..MaxWorkers

\* "self.lock = threading.RLock()"
Released == [owner |-> 0, count |-> 0]

\* _save_data: the data file of the item is written
_save_data(fs, cls, item) ==
    [fs EXCEPT !.files = [p \in DOMAIN @ \cup {str(item["id"])} |->
                             IF p = str(item["id"]) THEN to_dict(cls, item) ELSE @[p]]]

\* The workers save courts with distinct ids, each in one of the variants,
\* all through save_batch or all through save.
WorkersInit ==
    /\ scope = {"Court"}
    /\ storage = [s \in Stores |-> NewFileStorage]
    /\ saved = [s \in Stores |-> EmptyDict]
    /\ lock = Released
    /\ pool \in {"none", "running"}
    /\ \E variant \in [Workers -> Variants] :
           workers = [w \in Workers |->
                         [item |-> Record("Court", w, variant[w]), at |-> "_save_data"]]

At(w, at) == [workers EXCEPT ![w].at = at]

\* save and _save_single_item: "self._save_data(file_path, data)", outside
\* the lock
write_data(w) ==
    /\ workers[w].at = "_save_data"
    /\ storage' = [storage EXCEPT !["courts"] = _save_data(@, "Court", workers[w].item)]
    /\ workers' = At(w, "_update_indexes")
    /\ UNCHANGED <<scope, saved, lock, pool>>
    /\ UNCHANGED OutsideWorkers

\* "with self.lock:" of _update_indexes and of _save_indexes: the lock is
\* free or the worker owns it
acquire(w) ==
    /\ workers[w].at \in {"_update_indexes", "_save_indexes"}
    /\ lock.owner \in {0, w}
    /\ lock' = [owner |-> w, count |-> lock.count + 1]
    /\ workers' = At(w, workers[w].at \o " locked")
    /\ UNCHANGED storeVars
    /\ UNCHANGED pool
    /\ UNCHANGED OutsideWorkers

\* The body of _update_indexes
update_indexes(w) ==
    /\ workers[w].at = "_update_indexes locked"
    /\ storage' = [storage EXCEPT !["courts"] =
                      _update_indexes(@, "Court", workers[w].item["id"], workers[w].item)]
    /\ saved' = Remember("courts", workers[w].item)
    /\ workers' = At(w, "_update_indexes release")
    /\ UNCHANGED <<scope, lock, pool>>
    /\ UNCHANGED OutsideWorkers

\* The body of _save_indexes in save
save_indexes(w) ==
    /\ workers[w].at = "_save_indexes locked"
    /\ storage' = [storage EXCEPT !["courts"] = _save_indexes(@)]
    /\ workers' = At(w, "_save_indexes release")
    /\ UNCHANGED <<scope, saved, lock, pool>>
    /\ UNCHANGED OutsideWorkers

\* The end of "with self.lock:". _save_single_item returns after
\* _update_indexes, save goes on to _save_indexes and returns after it.
release(w) ==
    /\ workers[w].at \in {"_update_indexes release", "_save_indexes release"}
    /\ lock' = IF lock.count = 1 THEN Released ELSE [lock EXCEPT !.count = @ - 1]
    /\ workers' = At(w, IF workers[w].at = "_update_indexes release" /\ pool = "none"
                        THEN "_save_indexes"
                        ELSE "returned")
    /\ UNCHANGED storeVars
    /\ UNCHANGED pool
    /\ UNCHANGED OutsideWorkers

\* save_batch: every future has its result; "self._save_indexes()" and return
save_batch_return ==
    /\ pool = "running"
    /\ \A w \in Workers : workers[w].at = "returned"
    /\ lock = Released
    /\ storage' = [storage EXCEPT !["courts"] = _save_indexes(@)]
    /\ pool' = "returned"
    /\ UNCHANGED <<scope, saved, lock, workers>>
    /\ UNCHANGED OutsideWorkers

WorkersNext ==
    \/ \E w \in Workers : write_data(w)
    \/ \E w \in Workers : acquire(w)
    \/ \E w \in Workers : update_indexes(w)
    \/ \E w \in Workers : save_indexes(w)
    \/ \E w \in Workers : release(w)
    \/ save_batch_return

WorkersIdle ==
    /\ lock = Released
    /\ workers = <<>>
    /\ pool = "none"

----------------------------------------------------------------------------
(* BulkDataSet (domain/aggregates.py) over DataFile (value_objects.py)     *)

MaxFiles == 2

MaxEvents == 2

\* "1024 * 1024 * 1024"
GiB == 1073741824

\* DataFileStatus
DataFileStatuses == {"PENDING", "DOWNLOADING", "DOWNLOADED", "PARSING", "PARSED", "ERROR"}

Paths == {"/data/file_" \o ToString(i) \o ".txt" : i \in 1..MaxFiles}

\* The size of the first sample file, and of a file of one byte more than
\* half a GiB.
SampleSize == 1024000

LargeSize == 536870913

\* The sizes of the data files, None for a size not known.
Sizes == {None, PyInt(SampleSize), PyInt(LargeSize)}

\* The total_size argument of the constructor: not given, the total of the
\* sample dataset, 1 GiB, one byte more.
TotalSizes == {None, PyInt(3 * SampleSize), PyInt(GiB), PyInt(GiB + 1)}

\* DataFile(path, size, status, error_message) for a path that names no
\* file of the machine
DataFile(path, size, status, error_message) ==
    [path |-> path, size |-> size, status |-> status, error_message |-> error_message]

\* "sum(f.size for f in self.data_files if f.size)"
RECURSIVE SumOfSizes(_)
SumOfSizes(data_files) ==
    IF data_files = <<>> THEN 0
    ELSE (IF Truthy(Head(data_files).size) THEN Head(data_files).size.v ELSE 0)
             + SumOfSizes(Tail(data_files))

\* BulkDataSet(dataset_id, data_files, total_size) with __post_init__
BulkDataSet(data_files, total_size) ==
    [data_files |-> data_files,
     total_size |-> IF ~Truthy(total_size) /\ data_files # <<>>
                    THEN PyInt(SumOfSizes(data_files))
                    ELSE total_size,
     events |-> <<>>]

\* The lists of data files a dataset is constructed with: the files have
\* the paths in their order.
RECURSIVE DataFileLists(_)
DataFileLists(n) ==
    IF n = 0 THEN {<<>>}
    ELSE LET shorter == DataFileLists(n - 1)
         IN  shorter \cup
                 {Append(l, DataFile("/data/file_" \o ToString(n) \o ".txt", size, status, None)) :
                      l \in {m \in shorter : Len(m) = n - 1},
                      size \in Sizes, status \in DataFileStatuses}

\* has_errors
has_errors(ds) ==
    \E i \in DOMAIN ds.data_files : ds.data_files[i].status = "ERROR"

\* is_download_complete
is_download_complete(ds) ==
    /\ ds.data_files # <<>>
    /\ \A i \in DOMAIN ds.data_files : ds.data_files[i].status = "DOWNLOADED"

\* The reason validate_for_processing gives for False, None when it
\* returns True.
ValidationFailure(ds) ==
    CASE ds.data_files = <<>> -> PyStr("No data files in dataset")
      [] has_errors(ds) -> PyStr("Dataset contains files with errors")
      [] ~is_download_complete(ds) -> PyStr("Not all files have been downloaded")
      [] Truthy(ds.total_size) /\ ds.total_size.v > GiB ->
            PyStr("Dataset size exceeds 1GB limit")
      [] OTHER -> None

DataValidationFailed(reason) == [event_type |-> "DataValidationFailed", reason |-> reason]

DatasetInit ==
    /\ \E data_files \in DataFileLists(MaxFiles) :
       \E total_size \in TotalSizes :
           dataset = BulkDataSet(data_files, total_size)
    /\ outcome = None

\* add_data_file(file_path)
add_data_file(file_path) ==
    /\ Len(dataset.data_files) < MaxFiles
    /\ LET data_files == Append(dataset.data_files, DataFile(file_path, None, "PENDING", None))
       IN  dataset' = [dataset EXCEPT !.data_files = data_files,
                                      !.total_size = PyInt(SumOfSizes(data_files))]
    /\ outcome' = None
    /\ UNCHANGED OutsideDataset

\* update_file_status(file_path, status) for a path of the dataset: the
\* first file of that path takes the status
update_file_status(file_path, status) ==
    /\ \E i \in DOMAIN dataset.data_files : dataset.data_files[i].path = file_path
    /\ LET i == CHOOSE i \in DOMAIN dataset.data_files :
                    /\ dataset.data_files[i].path = file_path
                    /\ \A j \in 1..(i - 1) : dataset.data_files[j].path # file_path
       IN  dataset' = [dataset EXCEPT !.data_files[i] =
                          DataFile(@.path, @.size, status, None)]
    /\ outcome' = None
    /\ UNCHANGED OutsideDataset

\* validate_for_processing()
validate_for_processing ==
    /\ Len(dataset.events) < MaxEvents
    /\ LET reason == ValidationFailure(dataset)
       IN  /\ outcome' = PyBool(reason = None)
           /\ dataset' = IF reason = None THEN dataset
                         ELSE [dataset EXCEPT !.events = Append(@, DataValidationFailed(reason))]
    /\ UNCHANGED OutsideDataset

DatasetNext ==
    \/ \E file_path \in Paths : add_data_file(file_path)
    \/ \E file_path \in Paths : \E status \in DataFileStatuses :
           update_file_status(file_path, status)
    \/ validate_for_processing

DatasetIdle ==
    /\ dataset = None
    /\ outcome = None

----------------------------------------------------------------------------
(* FreeLawCSVParser.clean_value (import_ALL_freelaw_data_FIXED.py)         *)

MaxLen == 5

\* A string is the sequence of its characters. Sentinel is the backtick, the
\* character the export wraps every value in.
Sentinel == "backtick"

Alphabet == {Sentinel, "a"}

\* The strings over the alphabet of up to n characters.
RECURSIVE StringsUpTo(_)
StringsUpTo(n) ==
    IF n = 0 THEN {<<>>}
    ELSE LET shorter == StringsUpTo(n - 1)
         IN  shorter \cup {Append(s, c) : s \in {t \in shorter : Len(t) = n - 1},
                                          c \in Alphabet}

\* "value.startswith('`') and value.endswith('`')"
IsWrapped(s) == s # <<>> /\ Head(s) = Sentinel /\ s[Len(s)] = Sentinel

\* "value[1:-1]"
Inner(s) == SubSeq(s, 2, Len(s) - 1)

\* A variant that unwraps a value that starts with the sentinel or ends
\* with it.
clean_value_Either(s) ==
    IF s # <<>> /\ (Head(s) = Sentinel \/ s[Len(s)] = Sentinel) THEN Inner(s) ELSE s

\* FreeLawCSVParser.clean_value on a string
clean_value(s) == IF IsWrapped(s) THEN Inner(s) ELSE s

CleanInit ==
    /\ argument \in StringsUpTo(MaxLen)
    /\ returns = <<>>

\* clean_value is called on the argument, and then on what it returned.
CleanAgain ==
    /\ Len(returns) < 2
    /\ returns' = Append(returns, clean_value(IF returns = <<>> THEN argument
                                              ELSE returns[Len(returns)]))
    /\ UNCHANGED argument
    /\ UNCHANGED OutsideCall

CleanNext == CleanAgain

CallIdle ==
    /\ argument = None
    /\ returns = <<>>

----------------------------------------------------------------------------
(* SearchFilter._fuzzy_match and the FUZZY operator of SearchFilter.matches *)
(* (courtfinder/search.py)                                                 *)

MaxWord == 3

MaxBudget == 3

Letters == {"a", "A"}

\* The strings of up to n letters.
RECURSIVE WordsUpTo(_)
WordsUpTo(n) ==
    IF n = 0 THEN {<<>>}
    ELSE LET shorter == WordsUpTo(n - 1)
         IN  shorter \cup {Append(s, c) : s \in {t \in shorter : Len(t) = n - 1},
                                          c \in Letters}

Words == WordsUpTo(MaxWord)

Smith == <<"S", "m", "i", "t", "h">>
Smyth == <<"S", "m", "y", "t", "h">>

Budgets == 0..MaxBudget

\* str.lower on the characters of the model
lower(s) ==
    [i \in 1..Len(s) |-> CASE s[i] = "A" -> "a"
                           [] s[i] = "S" -> "s"
                           [] OTHER -> s[i]]

Abs(n) == IF n < 0 THEN -n ELSE n

Min3(a, b, c) ==
    IF a <= b /\ a <= c THEN a ELSE IF b <= c THEN b ELSE c

\* d[i][j] of _fuzzy_match: the first column and the first row, then the
\* least of deletion, insertion and substitution.
RECURSIVE d_at(_, _, _, _)
d_at(text, pattern, i, j) ==
    IF j = 0 THEN i
    ELSE IF i = 0 THEN j
    ELSE LET cost == IF text[i] = pattern[j] THEN 0 ELSE 1
         IN  Min3(d_at(text, pattern, i - 1, j) + 1,
                  d_at(text, pattern, i, j - 1) + 1,
                  d_at(text, pattern, i - 1, j - 1) + cost)

\* A variant that returns False when the lengths differ by max_distance or
\* more.
_fuzzy_match_AtLeast(text, pattern, max_distance) ==
    IF Abs(Len(text) - Len(pattern)) >= max_distance THEN FALSE
    ELSE d_at(text, pattern, Len(text), Len(pattern)) <= max_distance

\* SearchFilter._fuzzy_match
_fuzzy_match(text, pattern, max_distance) ==
    IF Abs(Len(text) - Len(pattern)) > max_distance THEN FALSE
    ELSE d_at(text, pattern, Len(text), Len(pattern)) <= max_distance

\* "max_distance: int = 2"
DefaultMaxDistance == 2

\* SearchFilter.matches with the operator FUZZY on a field that holds a
\* string, against a string: both in lower case unless case_sensitive, and
\* _fuzzy_match without a third argument.
matches_FUZZY(field_value, value, case_sensitive) ==
    IF case_sensitive
    THEN _fuzzy_match(field_value, value, DefaultMaxDistance)
    ELSE _fuzzy_match(lower(field_value), lower(value), DefaultMaxDistance)

\* The calls checked: two strings of letters, or Smith and Smyth.
FuzzyInit ==
    /\ \E text, pattern \in Words \cup {Smith, Smyth} :
       \E max_distance \in Budgets : \E case_sensitive \in BOOLEAN :
          /\ {text, pattern} \subseteq Words \/ {text, pattern} = {Smith, Smyth}
          /\ argument = [text |-> text, pattern |-> pattern,
                         max_distance |-> max_distance,
                         case_sensitive |-> case_sensitive]
    /\ returns = <<>>

\* filter._fuzzy_match(text, pattern, max_distance)
fuzzy_match_call ==
    /\ returns = <<>>
    /\ returns' = <<[op |-> "_fuzzy_match",
                     v |-> _fuzzy_match(argument.text, argument.pattern,
                                        argument.max_distance)]>>
    /\ UNCHANGED argument
    /\ UNCHANGED OutsideCall

\* SearchFilter(field, SearchOperator.FUZZY, pattern, case_sensitive).matches(obj)
\* for an obj whose field holds text
matches_call ==
    /\ returns = <<>>
    /\ returns' = <<[op |-> "matches",
                     v |-> matches_FUZZY(argument.text, argument.pattern,
                                         argument.case_sensitive)]>>
    /\ UNCHANGED argument
    /\ UNCHANGED OutsideCall

FuzzyNext == fuzzy_match_call \/ matches_call

----------------------------------------------------------------------------
(* OpinionCSVParser.parse_opinion_csv over the lines of an opinion export  *)
(* (import_ALL_freelaw_data_FIXED.py)                                      *)

MaxRows == 2

\* The characters of a string.
Chars(s) == [i \in 1..Len(s) |-> SubSeq(s, i, i)]

Newline == "\n"

Whitespace == {" ", "\t", "\r", Newline}

Least(S) == CHOOSE i \in S : \A j \in S : i <= j

\* sep.join(parts)
RECURSIVE JoinWith(_, _)
JoinWith(parts, sep) ==
    IF parts = <<>> THEN <<>>
    ELSE IF Len(parts) = 1 THEN parts[1]
    ELSE parts[1] \o sep \o JoinWith(Tail(parts), sep)

\* The lines a text file gives when it is iterated: each with its newline,
\* the last one perhaps without.
RECURSIVE ReadLines(_)
ReadLines(text) ==
    IF text = <<>> THEN <<>>
    ELSE LET ends == {i \in 1..Len(text) : text[i] = Newline}
             n == IF ends = {} THEN Len(text) ELSE Least(ends)
         IN  <<SubSeq(text, 1, n)>> \o ReadLines(SubSeq(text, n + 1, Len(text)))

\* str.rstrip(chars) and str.lstrip(chars)
RECURSIVE rstrip(_, _)
rstrip(s, chars) ==
    IF s # <<>> /\ s[Len(s)] \in chars THEN rstrip(SubSeq(s, 1, Len(s) - 1), chars) ELSE s

RECURSIVE lstrip(_, _)
lstrip(s, chars) ==
    IF s # <<>> /\ Head(s) \in chars THEN lstrip(Tail(s), chars) ELSE s

\* str.strip()
strip(s) == lstrip(rstrip(s, Whitespace), Whitespace)

\* str.split(sep)
RECURSIVE split(_, _)
split(s, sep) ==
    LET at == {i \in 1..Len(s) : s[i] = sep}
    IN  IF at = {} THEN <<s>>
        ELSE <<SubSeq(s, 1, Least(at) - 1)>> \o split(SubSeq(s, Least(at) + 1, Len(s)), sep)

\* "line.startswith('`')"
StartsRecord(line) == line # <<>> /\ Head(line) = Sentinel

\* str.isdigit()
isdigit(s) == s # <<>> /\ \A i \in 1..Len(s) : IsDigit(s[i])

\* A variant of the reader whose quote character is the sentinel: a comma
\* between two sentinels is part of the field.
RECURSIVE csv_fields_SentinelQuoted(_, _, _)
csv_fields_SentinelQuoted(row_line, field, quoted) ==
    IF row_line = <<>> THEN <<field>>
    ELSE LET c == Head(row_line) IN
         IF c = Sentinel
         THEN csv_fields_SentinelQuoted(Tail(row_line), Append(field, c), ~quoted)
         ELSE IF c = "," /\ ~quoted
         THEN <<field>> \o csv_fields_SentinelQuoted(lstrip(Tail(row_line), {" "}), <<>>, FALSE)
         ELSE csv_fields_SentinelQuoted(Tail(row_line), Append(field, c), quoted)

\* "next(csv.reader(row_io, quoting=csv.QUOTE_ALL, skipinitialspace=True))"
\* on a line without a double quote, the quote character of the reader: the
\* fields are the pieces between the commas, the spaces after a comma
\* skipped. field and quoted are the field read so far and whether the
\* reader is between quotes, which it never is here.
RECURSIVE csv_fields(_, _, _)
csv_fields(row_line, field, quoted) ==
    IF row_line = <<>> THEN <<field>>
    ELSE LET c == Head(row_line) IN
         IF c = ","
         THEN <<field>> \o csv_fields(lstrip(Tail(row_line), {" "}), <<>>, quoted)
         ELSE csv_fields(Tail(row_line), Append(field, c), quoted)

\* The row the reader gives for a line that is not empty
csv_row(row_line) == csv_fields(lstrip(row_line, {" "}), <<>>, FALSE)

\* parse_csv_row returns None: the reader has no row (StopIteration), or
\* "len(row_data) != len(expected_columns)"
parse_csv_row_None(row_line, expected_columns) ==
    \/ row_line = <<>>
    \/ Len(csv_row(row_line)) # Len(expected_columns)

\* parse_csv_row when it does not return None: "dict(zip(expected_columns,
\* row_data))"
parse_csv_row(row_line, expected_columns) ==
    LET row_data == csv_row(row_line)
    IN  [c \in Range(expected_columns) |->
            row_data[CHOOSE i \in 1..Len(expected_columns) :
                        /\ expected_columns[i] = c
                        /\ \A j \in (i + 1)..Len(expected_columns) : expected_columns[j] # c]]

\* "row_dict.get(key, '')"
get(row_dict, key) == IF key \in DOMAIN row_dict THEN row_dict[key] ELSE <<>>

is_valid_opinion_row(row_dict) ==
    LET opinion_id == strip(get(row_dict, Chars("id")))
        opinion_type == strip(get(row_dict, Chars("type")))
        cluster_id == strip(get(row_dict, Chars("cluster_id")))
    IN  /\ opinion_id # <<>>
        /\ IsWrapped(opinion_id)
        /\ isdigit(Inner(opinion_id))
        /\ opinion_type # <<>>
        /\ IsWrapped(opinion_type)
        /\ Inner(opinion_type) # <<>>
        /\ Head(Inner(opinion_type)) # "<"
        /\ \/ cluster_id = <<>>
           \/ IsWrapped(cluster_id) /\ isdigit(Inner(cluster_id))
           \/ ~("<" \in Range(cluster_id) \/ ">" \in Range(cluster_id) \/ Len(cluster_id) > 50)

\* The columns of the export, and its header line.
Columns == <<Chars("id"), Chars("cluster_id"), Chars("type"), Chars("html")>>

HeaderLine == JoinWith(Columns, <<",">>) \o <<Newline>>

\* The export writes every field between sentinels, the fields of a row
\* separated by commas, and a newline after the row; a newline inside a
\* field is written as it is.
Quoted(value) == <<Sentinel>> \o value \o <<Sentinel>>

ExportRow(fields) ==
    JoinWith([i \in 1..Len(fields) |-> Quoted(fields[i])], <<",">>) \o <<Newline>>

RECURSIVE ExportRows(_)
ExportRows(rows) ==
    IF rows = <<>> THEN <<>> ELSE ExportRow(Head(rows)) \o ExportRows(Tail(rows))

\* The HTML of an opinion: on one line, or on three lines, with a comma or
\* with an empty line.
Htmls ==
    {Chars("<p>a</p>"), Chars("<p>a\nb\nc</p>"), Chars("<p>a\nb, c\nd</p>"),
     Chars("<p>a\n\nc</p>")}

\* A row of an opinion: id, cluster_id, type and html.
OpinionRow(i, html) == <<Chars(ToString(i)), Chars("5"), Chars("010"), html>>

\* The rows the export holds for the i-th opinion: an opinion row, a row
\* that lacks its last field or has one more, or a row whose id is no
\* number.
RowsOf(i) ==
    {OpinionRow(i, html) : html \in Htmls}
        \cup {SubSeq(OpinionRow(i, Chars("<p>a</p>")), 1, 3),
              Append(OpinionRow(i, Chars("<p>a</p>")), Chars("x")),
              <<Chars("x"), Chars("5"), Chars("010"), Chars("<p>a</p>")>>}

\* The lists of n rows or fewer, the i-th a row of the i-th opinion.
RECURSIVE RowLists(_)
RowLists(n) ==
    IF n = 0 THEN {<<>>}
    ELSE LET shorter == RowLists(n - 1)
         IN  shorter \cup {Append(rows, r) : rows \in {l \in shorter : Len(l) = n - 1},
                                               r \in RowsOf(n)}

\* The limit arguments: None (0), or 1.
ParserLimits == {0, 1}

\* The two decoders: OpinionCSVParser.parse_opinion_csv and
\* EfficientOpinionParser.parse_opinions_fast.
Decoders == {"parse_opinion_csv", "parse_opinions_fast"}

\* EfficientOpinionParser.is_valid_opinion_row: only the id is looked at.
EfficientOpinionParser_is_valid_opinion_row(row_dict) ==
    LET opinion_id == strip(get(row_dict, Chars("id")))
    IN  /\ opinion_id # <<>>
        /\ IsWrapped(opinion_id)
        /\ isdigit(Inner(opinion_id))

\* The locals of parse_opinion_csv before the header is read.
ParserStart ==
    [pc |-> "start", expected_columns |-> <<>>, current_row_parts |-> <<>>,
     in_record |-> FALSE, line_count |-> 0, valid_rows |-> <<>>,
     total_processed |-> 0]

\* The file holds the header line, perhaps an empty line, and the rows.
ParserInit ==
    /\ \E rows \in RowLists(MaxRows) \ {<<>>} : \E empty_line \in BOOLEAN :
       \E lim \in ParserLimits : \E decoder \in Decoders :
          opinion_csv =
              [decoder |-> decoder,
               rows |-> rows,
               lines |-> ReadLines(HeaderLine
                                     \o (IF empty_line THEN <<Newline>> ELSE <<>>)
                                     \o ExportRows(rows)),
               limit |-> lim]
    /\ parsing = ParserStart

\* "header_line = f.readline().strip()", "expected_columns =
\* header_line.split(',')"
read_header ==
    /\ parsing.pc = "start"
    /\ parsing' = [parsing EXCEPT
                       !.pc = "lines",
                       !.expected_columns = split(strip(opinion_csv.lines[1]), ",")]
    /\ UNCHANGED opinion_csv
    /\ UNCHANGED OutsideParser

\* "for line in f": f has a line left, after the header and the lines read
HasLine == parsing.pc = "lines" /\ parsing.line_count + 1 < Len(opinion_csv.lines)

\* "line = line.rstrip('\n\r')"
Line == rstrip(opinion_csv.lines[parsing.line_count + 2], {Newline, "\r"})

\* "if limit and total_processed >= limit"
ReachedLimit(p) == opinion_csv.limit # 0 /\ p.total_processed >= opinion_csv.limit

\* parse_opinion_csv tests the limit at each line, before it looks at the
\* line; parse_opinions_fast does not.
AtLimit == opinion_csv.decoder = "parse_opinion_csv" /\ ReachedLimit(parsing)

\* parse_opinion_csv validates with OpinionCSVParser.is_valid_opinion_row,
\* try_parse_row of parse_opinions_fast with the one of its own class.
IsValid(parsed_row) ==
    IF opinion_csv.decoder = "parse_opinion_csv"
    THEN is_valid_opinion_row(parsed_row)
    ELSE EfficientOpinionParser_is_valid_opinion_row(parsed_row)

\* The record read so far is parsed, and added to valid_rows if it parses
\* and is a valid opinion row.
process_record(p) ==
    IF ~(p.in_record /\ p.current_row_parts # <<>>) THEN p
    ELSE LET complete_row == JoinWith(p.current_row_parts, <<>>)
         IN  IF parse_csv_row_None(complete_row, p.expected_columns) THEN p
             ELSE LET parsed_row == parse_csv_row(complete_row, p.expected_columns)
                  IN  IF ~IsValid(parsed_row) THEN p
                      ELSE [p EXCEPT !.valid_rows = Append(@, parsed_row),
                                     !.total_processed = @ + 1]

\* parse_opinions_fast, after it has added a row: "if limit and
\* total_processed >= limit: break"
BreaksAfterRow ==
    /\ opinion_csv.decoder = "parse_opinions_fast"
    /\ process_record(parsing).total_processed > parsing.total_processed
    /\ ReachedLimit(process_record(parsing))

\* A line that starts with the sentinel: the record before it is processed
\* and a new record starts with the line.
new_record ==
    /\ HasLine
    /\ ~AtLimit
    /\ StartsRecord(Line)
    /\ ~BreaksAfterRow
    /\ parsing' = [process_record(parsing) EXCEPT
                       !.line_count = @ + 1,
                       !.current_row_parts = <<Line>>,
                       !.in_record = TRUE]
    /\ UNCHANGED opinion_csv
    /\ UNCHANGED OutsideParser

\* "elif in_record: current_row_parts.append(line)"
continuation ==
    /\ HasLine
    /\ ~AtLimit
    /\ ~StartsRecord(Line)
    /\ parsing.in_record
    /\ parsing' = [parsing EXCEPT !.line_count = @ + 1,
                                  !.current_row_parts = Append(@, Line)]
    /\ UNCHANGED opinion_csv
    /\ UNCHANGED OutsideParser

\* A line before the first record
outside_record ==
    /\ HasLine
    /\ ~AtLimit
    /\ ~StartsRecord(Line)
    /\ ~parsing.in_record
    /\ parsing' = [parsing EXCEPT !.line_count = @ + 1]
    /\ UNCHANGED opinion_csv
    /\ UNCHANGED OutsideParser

\* "break" at the limit, then the final record is processed and valid_rows
\* returned.
stop_at_limit ==
    /\ HasLine
    /\ AtLimit
    /\ parsing' = [process_record(parsing) EXCEPT !.line_count = @ + 1,
                                                  !.pc = "returned"]
    /\ UNCHANGED opinion_csv
    /\ UNCHANGED OutsideParser

\* parse_opinions_fast at a line that starts a record: the record before it
\* is processed and the limit reached, "break" before the new record
\* starts; then the last record, the one just processed, is processed and
\* valid_rows returned.
break_after_row ==
    /\ HasLine
    /\ StartsRecord(Line)
    /\ BreaksAfterRow
    /\ parsing' = [process_record(process_record(parsing)) EXCEPT
                       !.line_count = @ + 1,
                       !.pc = "returned"]
    /\ UNCHANGED opinion_csv
    /\ UNCHANGED OutsideParser

\* The end of the file: the final record is processed and valid_rows
\* returned.
end_of_file ==
    /\ parsing.pc = "lines"
    /\ ~HasLine
    /\ parsing' = [process_record(parsing) EXCEPT !.pc = "returned"]
    /\ UNCHANGED opinion_csv
    /\ UNCHANGED OutsideParser

ParserNext ==
    \/ read_header
    \/ new_record
    \/ continuation
    \/ outside_record
    \/ stop_at_limit
    \/ break_after_row
    \/ end_of_file

ParserIdle ==
    /\ opinion_csv = None
    /\ parsing = None

----------------------------------------------------------------------------
(* CourtFinderSearch._search_storage: filters, sort and pagination, on the *)
(* people store (courtfinder/search.py)                                    *)

MaxPeople == 2

\* The characters from the space to the underscore and from a to the tilde,
\* in the order of their code points, which are 32..95 and 97..126.
AsciiLow == " !\"#$%&'()*+,-./0123456789:;<=>?@ABCDEFGHIJKLMNOPQRSTUVWXYZ[\\]^_"
AsciiHigh == "abcdefghijklmnopqrstuvwxyz{|}~"

\* ord(c)
ord(c) ==
    IF \E i \in 1..Len(AsciiLow) : SubSeq(AsciiLow, i, i) = c
    THEN 31 + (CHOOSE i \in 1..Len(AsciiLow) : SubSeq(AsciiLow, i, i) = c)
    ELSE 96 + (CHOOSE i \in 1..Len(AsciiHigh) : SubSeq(AsciiHigh, i, i) = c)

\* a < b for two str
RECURSIVE str_lt(_, _)
str_lt(a, b) ==
    IF b = "" THEN FALSE
    ELSE IF a = "" THEN TRUE
    ELSE IF SubSeq(a, 1, 1) # SubSeq(b, 1, 1)
    THEN ord(SubSeq(a, 1, 1)) < ord(SubSeq(b, 1, 1))
    ELSE str_lt(SubSeq(a, 2, Len(a)), SubSeq(b, 2, Len(b)))

\* a < b for two keys of one field: two str or two int
key_lt(a, b) ==
    IF a.kind = "str" THEN str_lt(a.v, b.v) ELSE a.v < b.v

\* a < b for two lists of keys of the same length: the first keys that
\* differ decide.
RECURSIVE list_lt(_, _)
list_lt(a, b) ==
    IF a = <<>> THEN FALSE
    ELSE IF Head(a) # Head(b) THEN key_lt(Head(a), Head(b))
    ELSE list_lt(Tail(a), Tail(b))

\* SortCriteria.sort_key
SortCriteria_sort_key(criteria, obj) ==
    LET value == obj[criteria.field]
    IN  IF value = None THEN PyStr(IF criteria.order = "ASC" THEN "" ELSE "~")
        ELSE IF value.kind \in {"date", "datetime"} THEN isoformat(value)
        ELSE value

\* "def sort_key(obj)" of _search_storage
sort_key(sort_criteria, obj) ==
    [i \in 1..Len(sort_criteria) |-> SortCriteria_sort_key(sort_criteria[i], obj)]

\* "reverse = any(criteria.order == SortOrder.DESC for criteria in
\* query.sort_criteria)"
reverse(sort_criteria) ==
    \E i \in 1..Len(sort_criteria) : sort_criteria[i].order = "DESC"

\* list.sort(key=..., reverse=...): obj is put before the first object of
\* the sorted list that comes after it in the order, so that objects with
\* equal keys stay in the order they had.
RECURSIVE Insert(_, _, _, _)
Insert(sorted, obj, sort_criteria, rev) ==
    IF sorted = <<>> THEN <<obj>>
    ELSE LET k == sort_key(sort_criteria, obj)
             h == sort_key(sort_criteria, Head(sorted))
         IN  IF (IF rev THEN list_lt(h, k) ELSE list_lt(k, h))
             THEN <<obj>> \o sorted
             ELSE <<Head(sorted)>> \o Insert(Tail(sorted), obj, sort_criteria, rev)

RECURSIVE list_sort(_, _, _)
list_sort(objects, sort_criteria, rev) ==
    IF objects = <<>> THEN <<>>
    ELSE Insert(list_sort(SubSeq(objects, 1, Len(objects) - 1), sort_criteria, rev),
                objects[Len(objects)], sort_criteria, rev)

\* SearchQuery.matches with EQUALS filters
SearchQuery_matches(query, obj) ==
    \A i \in 1..Len(query.filters) :
        matches(obj, query.filters[i].field, query.filters[i].value)

\* "for obj_id in all_ids": the objects that load and match, in the order
\* of the ids
RECURSIVE filtered_objects(_, _, _, _)
filtered_objects(fs, model_class, all_ids, query) ==
    IF all_ids = <<>> THEN <<>>
    ELSE LET obj == load(fs, model_class, PyStr(Head(all_ids)))
             rest == filtered_objects(fs, model_class, Tail(all_ids), query)
         IN  IF obj = None \/ ~SearchQuery_matches(query, obj) THEN rest
             ELSE <<obj>> \o rest

\* "end_idx = start_idx + query.limit if query.limit else None"
end_idx(query) ==
    IF query.limit # None /\ query.limit.v # 0
    THEN PyInt(query.offset + query.limit.v) ELSE None

\* "filtered_objects[start_idx:end_idx]" for a start_idx of 0 or more
Slice(objects, start, end) ==
    LET stop == IF end = None \/ end.v > Len(objects) THEN Len(objects) ELSE end.v
    IN  SubSeq(objects, start + 1, stop)

\* _search_storage; the execution time is left out
SearchResult(storage_attr, model_class, query) ==
    LET fs == storage[storage_attr]
        all_ids == list_all_ids(fs)
        filtered == filtered_objects(fs, model_class, all_ids, query)
        sorted == IF query.sort_criteria # <<>>
                  THEN list_sort(filtered, query.sort_criteria,
                                 reverse(query.sort_criteria))
                  ELSE filtered
    IN  [results |-> Slice(sorted, query.offset, end_idx(query)),
         total_count |-> Len(all_ids),
         filtered_count |-> Len(filtered),
         query |-> query]

\* SearchResult.has_more_results
has_more_results(r) ==
    IF r.query.limit = None THEN FALSE
    ELSE r.query.offset + Len(r.results) < r.filtered_count

\* The people stored: of each id one with no last name and no date of
\* birth, and ones named Hand or Friendly, born in 1872 or in 1903.
Dobs == {Date(1872, 1, 27), Date(1903, 7, 3)}

Person(i, name_last, date_dob) ==
    New("Person", [id |-> PyInt(i), date_created |-> Created,
                   date_modified |-> Modified, name_last |-> name_last,
                   date_dob |-> date_dob])

PeopleOf(i) ==
    {Person(i, None, None), Person(i, PyStr("Hand"), None)}
        \cup {Person(i, PyStr("Hand"), Date(1872, 1, 27)),
              Person(i, PyStr("Friendly"), Date(1872, 1, 27)),
              Person(i, PyStr("Friendly"), Date(1903, 7, 3))}

\* The lists of people of the ids 1..n, in the order of their ids.
RECURSIVE PeopleLists(_)
PeopleLists(n) ==
    IF n = 0 THEN {<<>>}
    ELSE {Append(l, p) : l \in PeopleLists(n - 1), p \in PeopleOf(n)}

\* The store after the people of a list were saved, the last one first.
RECURSIVE SavedPeople(_)
SavedPeople(people) ==
    IF people = <<>> THEN NewFileStorage
    ELSE save(SavedPeople(Tail(people)), "Person", Head(people))

SortFields == {"name_last", "date_dob", "id"}

SortOrders == {"ASC", "DESC"}

SortCriteria(field, order) == [field |-> field, order |-> order]

\* No sort, one key, or two keys on two fields.
SortLists ==
    {<<>>}
        \cup {<<SortCriteria(f, o)>> : f \in SortFields, o \in SortOrders}
        \cup {s \in {<<SortCriteria(f1, o1), SortCriteria(f2, o2)>> :
                          f1 \in {"name_last", "date_dob"}, o1 \in SortOrders,
                          f2 \in {"date_dob", "id"}, o2 \in SortOrders} :
                  s[1].field # s[2].field}

\* No filter, or the filter name_last EQUALS Hand.
FilterLists == {<<>>, <<[field |-> "name_last", value |-> PyStr("Hand")]>>}

\* SearchQuery(): no pagination. set_pagination(limit, offset): a limit of
\* 0..MaxPeople rows and an offset of 0..MaxPeople rows.
Paginations ==
    {[limit |-> None, offset |-> 0]}
        \cup {[limit |-> PyInt(l), offset |-> o] : l \in 0..MaxPeople, o \in 0..MaxPeople}

\* The queries: any sort without pagination, and any pagination with one
\* sort key or none.
Queries ==
    {[filters |-> f, sort_criteria |-> s, limit |-> pg.limit, offset |-> pg.offset] :
        f \in FilterLists,
        s \in SortLists,
        pg \in Paginations}

QueryInit ==
    /\ scope = {"Person"}
    /\ \E people \in PeopleLists(MaxPeople) :
          /\ storage = [s \in Stores |->
                           IF s = "people" THEN SavedPeople(people) ELSE NewFileStorage]
          /\ saved = [s \in Stores |->
                         IF s = "people"
                         THEN [k \in {str(people[i]["id"]) : i \in 1..Len(people)} |->
                                  people[CHOOSE i \in 1..Len(people) :
                                             str(people[i]["id"]) = k]]
                         ELSE EmptyDict]
    /\ argument \in {q \in Queries : q.limit = None \/ Len(q.sort_criteria) <= 1}
    /\ returns = <<>>

\* CourtFinderSearch.search_people(query)
search_people ==
    /\ returns = <<>>
    /\ returns' = <<SearchResult("people", "Person", argument)>>
    /\ UNCHANGED argument
    /\ UNCHANGED <<importVars, cliVars, storeVars, lockVars, workerVars, datasetVars,
                   parserVars, processVars, flagVars>>

QueryNext == search_people

----------------------------------------------------------------------------
(* A process that holds the CourtFinderStorage: it saves and deletes,      *)
(* stops, and starts again on the files it left (FileStorage.__init__)     *)

\* "str.replace(old, new)": every occurrence of old, from the left
RECURSIVE replace(_, _, _)
replace(s, old, new) ==
    IF Len(s) < Len(old) THEN s
    ELSE IF SubSeq(s, 1, Len(old)) = old
         THEN new \o replace(SubSeq(s, Len(old) + 1, Len(s)), old, new)
         ELSE SubSeq(s, 1, 1) \o replace(SubSeq(s, 2, Len(s)), old, new)

endswith(s, suffix) ==
    Len(s) >= Len(suffix) /\ SubSeq(s, Len(s) - Len(suffix) + 1, Len(s)) = suffix

\* Path.stem of the name of an index file
stem(name) == SubSeq(name, 1, Len(name) - Len(".json"))

\* "field_name = index_file.stem.replace('_index', '')"
field_name(index_file) == replace(stem(index_file), "_index", "")

\* "self.index_path.glob('*_index.json')" without id_index.json
FieldIndexFiles(fs) ==
    {n \in DOMAIN fs.index_files : endswith(n, "_index.json") /\ n # "id_index.json"}

\* "_load_index('id_index.json', {})": the keys of the object in the file,
\* none without the file.
IdIndexKeys(fs) ==
    IF "id_index.json" \in DOMAIN fs.index_files
    THEN DOMAIN fs.index_files["id_index.json"].v
    ELSE {}

\* The lists that hold each element of S once: the orders in which
\* json.load can give the keys of an object whose order is not kept here.
Orders(S) == {s \in [1..Cardinality(S) -> S] : Range(s) = S}

\* _load_indexes: the id index has the keys of id_index.json, in the order
\* of the file; each other index file is the index of the field its name
\* gives.
_load_indexes(fs, keys) ==
    [fs EXCEPT
        !.id_index = keys,
        !.field_indexes =
            [f \in {field_name(n) : n \in FieldIndexFiles(fs)} |->
                fs.index_files[CHOOSE n \in FieldIndexFiles(fs) : field_name(n) = f].v]]

\* FileStorage.exists
exists(fs, item_id) == str(item_id) \in DOMAIN fs.files

\* A process that has stopped keeps nothing in memory.
Forgotten(fs) == [fs EXCEPT !.id_index = <<>>, !.field_indexes = EmptyDict]

MaxStops == 1

\* The process runs and is in no call. interrupted is the item whose save
\* the last stop cut short, while nothing was saved or deleted since;
\* clean says that no stop has cut a save short so far, and stops counts
\* the stops.
ProcessStart ==
    [state |-> "running", call |-> None, op |-> "__init__", interrupted |-> None,
     clean |-> TRUE, stops |-> 0]

ProcessInit ==
    /\ scope \in {{"Docket"}, {"Person"}}
    /\ storage = [s \in Stores |-> NewFileStorage]
    /\ saved = [s \in Stores |-> EmptyDict]
    /\ process = ProcessStart

InNoCall == process.state = "running" /\ process.call = None

\* FileStorage.save up to "self._update_indexes(item_id, item)": the data
\* file is written and the indexes in memory have the item
save_data_file(cls, item) ==
    /\ InNoCall
    /\ cls \in scope
    /\ ~save_raises(cls, item)
    /\ storage' = [storage EXCEPT ![StoreOf(cls)] =
                      _update_indexes(_save_data(@, cls, item), cls, item["id"], item)]
    /\ saved' = Remember(StoreOf(cls), item)
    /\ process' = [process EXCEPT !.call = [cls |-> cls, item |-> item],
                                   !.interrupted = None]
    /\ UNCHANGED scope
    /\ UNCHANGED OutsideProcess

\* FileStorage.save from "self._save_indexes()" to its return
save_index_files ==
    /\ process.state = "running"
    /\ process.call # None
    /\ storage' = [storage EXCEPT ![StoreOf(process.call.cls)] = _save_indexes(@)]
    /\ process' = [process EXCEPT !.call = None, !.op = "save", !.interrupted = None]
    /\ UNCHANGED <<scope, saved>>
    /\ UNCHANGED OutsideProcess

\* FileStorage.delete
delete_item(cls, item_id) ==
    /\ InNoCall
    /\ cls \in scope
    /\ storage' = [storage EXCEPT ![StoreOf(cls)] = delete(@, item_id)]
    /\ saved' = Forget(StoreOf(cls), item_id)
    /\ process' = [process EXCEPT !.op = "delete", !.interrupted = None]
    /\ UNCHANGED scope
    /\ UNCHANGED OutsideProcess

\* CourtFinderStorage.cleanup_indexes: _save_indexes of every store
cleanup_indexes ==
    /\ InNoCall
    /\ storage' = [s \in Stores |-> _save_indexes(storage[s])]
    /\ process' = [process EXCEPT !.op = "cleanup_indexes"]
    /\ UNCHANGED <<scope, saved>>
    /\ UNCHANGED OutsideProcess

\* The process stops, between two calls or inside a save after the data
\* file was written and before the index files are.
stop ==
    /\ process.state = "running"
    /\ process.stops < MaxStops
    /\ storage' = [s \in Stores |-> Forgotten(storage[s])]
    /\ process' = [process EXCEPT
                      !.state = "stopped",
                      !.call = None,
                      !.interrupted = IF process.call # None THEN process.call.item ELSE @,
                      !.clean = @ /\ process.call = None,
                      !.stops = @ + 1]
    /\ UNCHANGED <<scope, saved>>
    /\ UNCHANGED OutsideProcess

\* CourtFinderStorage.__init__ on the files the process left: _load_indexes
\* of every store. The stores of the record types outside the session have
\* no ids.
restart ==
    /\ process.state = "stopped"
    /\ \E cls \in scope : \E keys \in Orders(IdIndexKeys(storage[StoreOf(cls)])) :
           storage' = [s \in Stores |->
                          _load_indexes(storage[s], IF s = StoreOf(cls) THEN keys ELSE <<>>)]
    /\ process' = [process EXCEPT !.state = "running", !.op = "__init__"]
    /\ UNCHANGED <<scope, saved>>
    /\ UNCHANGED OutsideProcess

ProcessNext ==
    \/ \E cls \in scope : \E item \in Records(cls) : save_data_file(cls, item)
    \/ save_index_files
    \/ \E cls \in scope : \E item_id \in ItemIds(cls) : delete_item(cls, item_id)
    \/ cleanup_indexes
    \/ stop
    \/ restart

ProcessIdle == process = None

----------------------------------------------------------------------------
(* import_data_type and a caller that cancels the running import *)

\* The flag is set when the import starts.
FlagInit == active = TRUE

\* The caller clears the flag while the import is in its loop. The import
\* itself has no step that reads or writes the flag: every step of
\* ImportNext leaves it as it is.
clear_active ==
    /\ pc = "loop"
    /\ active
    /\ active' = FALSE
    /\ UNCHANGED OutsideFlag

CancelNext == ImportNext \/ clear_active

FlagIdle == active = TRUE

----------------------------------------------------------------------------
(* Specifications *)

InitImport == ImportInit /\ CliIdle /\ StoreIdle /\ LockIdle /\ WorkersIdle /\ DatasetIdle /\ CallIdle /\ ParserIdle /\ ProcessIdle /\ FlagIdle

SpecImport == InitImport /\ [][ImportNext]_vars

InitCli == CliInit /\ ImportIdle /\ StoreIdle /\ LockIdle /\ WorkersIdle /\ DatasetIdle /\ CallIdle /\ ParserIdle /\ ProcessIdle /\ FlagIdle

SpecCli == InitCli /\ [][CliNext]_vars

InitStore == StoreInit /\ ImportIdle /\ CliIdle /\ LockIdle /\ WorkersIdle /\ DatasetIdle /\ CallIdle /\ ParserIdle /\ ProcessIdle /\ FlagIdle

SpecStore == InitStore /\ [][StoreNext]_vars

\* The store of a record type with an id of its own and a date, or with a
\* composite id.
DeleteInit == StoreInit /\ scope \in {{"Court"}, {"Citation"}}

InitDelete == DeleteInit /\ ImportIdle /\ CliIdle /\ LockIdle /\ WorkersIdle /\ DatasetIdle /\ CallIdle /\ ParserIdle /\ ProcessIdle /\ FlagIdle

SpecDelete == InitDelete /\ [][StoreNext]_vars

InitNet == NetInit /\ ImportIdle /\ CliIdle /\ LockIdle /\ WorkersIdle /\ DatasetIdle /\ CallIdle /\ ParserIdle /\ ProcessIdle /\ FlagIdle

SpecNet == InitNet /\ [][NetNext]_vars

SpecDeepNet == InitNet /\ [][DeepNext]_vars

InitLock == LockInit /\ ImportIdle /\ CliIdle /\ StoreIdle /\ WorkersIdle /\ DatasetIdle /\ CallIdle /\ ParserIdle /\ ProcessIdle /\ FlagIdle

InitWorkers == WorkersInit /\ ImportIdle /\ CliIdle /\ LockIdle /\ DatasetIdle /\ CallIdle /\ ParserIdle /\ ProcessIdle /\ FlagIdle

SpecWorkers == InitWorkers /\ [][WorkersNext]_vars

InitDataset == DatasetInit /\ ImportIdle /\ CliIdle /\ StoreIdle /\ LockIdle /\ WorkersIdle /\ CallIdle /\ ParserIdle /\ ProcessIdle /\ FlagIdle

SpecDataset == InitDataset /\ [][DatasetNext]_vars

InitClean == CleanInit /\ ImportIdle /\ CliIdle /\ StoreIdle /\ LockIdle /\ WorkersIdle /\ DatasetIdle /\ ParserIdle /\ ProcessIdle /\ FlagIdle

SpecClean == InitClean /\ [][CleanNext]_vars

InitFuzzy == FuzzyInit /\ ImportIdle /\ CliIdle /\ StoreIdle /\ LockIdle /\ WorkersIdle /\ DatasetIdle /\ ParserIdle /\ ProcessIdle /\ FlagIdle

SpecFuzzy == InitFuzzy /\ [][FuzzyNext]_vars

InitParser == ParserInit /\ ImportIdle /\ CliIdle /\ StoreIdle /\ LockIdle /\ WorkersIdle /\ DatasetIdle /\ CallIdle /\ ProcessIdle /\ FlagIdle

SpecParser == InitParser /\ [][ParserNext]_vars

InitQuery == QueryInit /\ ImportIdle /\ CliIdle /\ LockIdle /\ WorkersIdle /\ DatasetIdle /\ ParserIdle /\ ProcessIdle /\ FlagIdle

SpecQuery == InitQuery /\ [][QueryNext]_vars

\* One process on the CourtFinderStorage, with stops and restarts.
InitProcess == ProcessInit /\ ImportIdle /\ CliIdle /\ LockIdle /\ WorkersIdle /\ DatasetIdle /\ CallIdle /\ ParserIdle /\ FlagIdle

SpecProcess == InitProcess /\ [][ProcessNext]_vars

\* The import with a caller that may clear the flag at any row.
InitCancel == ImportInit /\ FlagInit /\ CliIdle /\ StoreIdle /\ LockIdle /\ WorkersIdle /\ DatasetIdle /\ CallIdle /\ ParserIdle /\ ProcessIdle

SpecCancel == InitCancel /\ [][CancelNext]_vars

\* A thread inside a call keeps running, and a thread that waits for the
\* lock gets it if the lock is unlocked again and again.
SpecLock ==
    /\ InitLock
    /\ [][LockNext]_vars
    /\ \A t \in Threads : WF_vars(Runs(t)) /\ SF_vars(_file_lock_enter(t))

----------------------------------------------------------------------------
(* Claims about import_data_type and the checkpoint ledger *)

\* C1: a run without a limit that resumes after a fresh, unlimited run was
\* stopped returns the imported and error counts of one uninterrupted run
\* over the same rows.
C1_ResumedCountsEqualFull ==
    (/\ pc = "returned"
     /\ after_kill
     /\ limit = 0
     /\ result.success
     /\ full_result # NoResult)
    => /\ result.imported_count = full_result.imported_count
       /\ result.error_count = full_result.error_count

\* C4: the checkpoint file is removed only by the return of a call that had
\* no limit and read the source to its end; a call that returns after its
\* limit, or with success False, returns with the file as it was.
C4_ClearedOnlyAfterUnlimitedCompletion ==
    [][/\ (cpFile # NoFile /\ cpFile' = NoFile)
          => (/\ pc = "after_loop"
              /\ limit = 0
              /\ row_num = NRows
              /\ pc' = "returned"
              /\ result'.success)
       /\ (pc # "returned" /\ pc' = "returned" /\ (limit # 0 \/ ~result'.success))
          => cpFile' = cpFile]_vars

\* A call with a limit has returned and the checkpoint it saved is in place.
C4_Witness ==
    /\ pc = "returned"
    /\ limit # 0
    /\ result.success
    /\ load_checkpoint(cpFile) # None
    /\ start_file = NoFile

\* The keys of the checkpoint that a resuming call reads: those that
\* load_checkpoint requires and those that get_resume_info and
\* import_data_type index.
FieldsRead == RequiredFields \cup {"timestamp"}

Defective(file) ==
    \/ file.kind \in {"absent", "unreadable"}
    \/ \E f \in FieldsRead : f \notin file.fields

\* C5: a call that finds the checkpoint missing, unreadable or without a key
\* that resuming reads does not raise and starts from the first row with
\* zero counts.
C5_DefectiveCheckpointIsAbsent ==
    (pc # "idle" /\ Defective(start_file))
    => (pc # "raised" /\ started = "fresh")

\* C6: when the process stops during save_checkpoint while a previous entry
\* exists, load_checkpoint returns the previous or the new entry.
C6_SaveIsAtomic ==
    (/\ pc = "killed"
     /\ save_new # None
     /\ load_checkpoint(save_old) # None)
    => load_checkpoint(cpFile) \in {save_old, save_new}

----------------------------------------------------------------------------
(* Claims about the CLI import *)

\* C7: failing rows never end an import early: every import of a readable
\* file returns success True after the whole file, or after its limit.
C7_RowFaultsNeverStopImport ==
    \A e \in Executions, t \in DataTypes :
        LET o == cli[e].outcome[t] IN
        o # NoResult =>
            /\ o.success
            /\ \/ o.read = StreamLen
               \/ o.limit # 0 /\ o.imported_count + o.error_count >= o.limit

\* C7, for import_data_type: it returns success False only when reading the
\* source raised, and success True only after the end of the source or, with a
\* limit, after a row past the limit.
C7_ImportDataTypeContinues ==
    [][(pc # "returned" /\ pc' = "returned")
       => IF result'.success
          THEN pc = "after_loop" /\ (row_num = NRows \/ PastLimit(row_num, limit))
          ELSE row_num + 1 = source.broken]_vars

\* C8: the outcome of the second import does not depend on the rows of the
\* first: two executions that import the same second file with the same limit
\* get the same outcome, whatever their first files held.
C8_StreamsIndependent ==
    \A e1 \in Executions, e2 \in Executions :
        LET o1 == cli[e1].outcome[Second]
            o2 == cli[e2].outcome[Second]
        IN  (o1 # NoResult /\ o2 # NoResult /\ o1.limit = o2.limit) => o1 = o2

----------------------------------------------------------------------------
(* Claims about the store *)

\* The values find_by_field is asked for: the values the records take, of
\* every field.
ProbeValues(cls) ==
    IF cls = "Citation"
    THEN {c[f] : c \in Citations, f \in Fields(cls)}
    ELSE {r[f] : r \in Records(cls), f \in Fields(cls)}

\* The records of a store as load returns them, by file name.
Stored(cls) ==
    LET fs == storage[StoreOf(cls)]
    IN  [p \in DOMAIN fs.files |-> load(fs, cls, PyStr(p))]

\* C2: find_by_field(field, value) returns exactly the stored records whose
\* current value of the field has the index key of value: none with another
\* current value, and every one that matches.
C2_FindByFieldIsExact ==
    \A cls \in scope : \A field \in Fields(cls) : \A value \in ProbeValues(cls) :
        LET found == find_by_field(storage[StoreOf(cls)], cls, field, value)
            matching == {p \in DOMAIN Stored(cls) :
                            /\ to_dict(cls, Stored(cls)[p])[field] # None
                            /\ IndexKey(to_dict(cls, Stored(cls)[p])[field])
                                   = IndexKey(value)}
        IN  (value # None /\ field \notin {"date_created", "date_modified"})
            => Range(found) = {Stored(cls)[p] : p \in matching}

\* Field for field equality of two records of a type.
FieldsEqual(cls, r1, r2) == \A f \in Fields(cls) : r1[f] = r2[f]

\* C3: after a successful save of r, and until the next save or delete of its
\* id, load(r.id) returns a record equal to r field for field, for every
\* record type.
C3_LoadReturnsSaved ==
    \A cls \in scope : \A k \in DOMAIN saved[StoreOf(cls)] :
        LET r == saved[StoreOf(cls)][k]
            loaded == load(storage[StoreOf(cls)], cls, r["id"])
        IN  /\ loaded \notin {None, Raised}
            /\ FieldsEqual(cls, loaded, r)

\* A citation is stored under its composite id together with a record that
\* carries a date, a datetime with microseconds and an enumeration member,
\* and both were saved over an earlier value.
C3_Witness ==
    \E cls \in scope : \E k \in DOMAIN saved[StoreOf(cls)] :
        LET r == saved[StoreOf(cls)][k]
            fs == storage[StoreOf(cls)]
        IN  /\ load(fs, cls, r["id"]) \notin {None, Raised}
            /\ \/ cls = "Citation" /\ k = "2_1" /\ r["quoted"] = PyBool(TRUE)
               \/ /\ cls = "OpinionCluster"
                  /\ r["precedential_status"] = Enum("PrecedentialStatus", "PUBLISHED")
                  /\ r["date_filed"] = Date(2024, 1, 2)
                  /\ r["date_modified"] = Modified
            /\ \E f \in DOMAIN fs.field_indexes : \E key \in DOMAIN fs.field_indexes[f] :
                   k \in Range(fs.field_indexes[f][key])
                   /\ key # IndexKey(to_dict(cls, r)[f])

----------------------------------------------------------------------------
(* Claims about the citation network *)

\* The ids of the nodes of a network.
NodeIds(network) == {network.nodes[i].id.v : i \in DOMAIN network.nodes}

\* A stored citation links a and b, in either direction.
DirectlyLinked(a, b) ==
    \E p \in DOMAIN storage["citations"].files :
        LET data == storage["citations"].files[p] IN
        \/ data["citing_opinion_id"] = PyInt(a) /\ data["cited_opinion_id"] = PyInt(b)
        \/ data["citing_opinion_id"] = PyInt(b) /\ data["cited_opinion_id"] = PyInt(a)

\* The opinion is stored.
OpinionStored(a) == ToString(a) \in DOMAIN storage["opinions"].files

\* C9: for every stored graph and every seed, the network of depth 0 has no
\* node but the seed and has no edge.
C9_DepthZeroIsSeedOnly ==
    \A seed \in OpinionIds :
        LET network == get_citation_network(PyInt(seed), 0) IN
        /\ NodeIds(network) \subseteq {seed}
        /\ network.edges = <<>>

\* C10: for every stored graph and every seed, every node of the network of
\* depth 1 other than the seed is directly linked to the seed by a citation.
C10_DepthOneIsDirectNeighbours ==
    \A seed \in OpinionIds :
        \A a \in NodeIds(get_citation_network(PyInt(seed), 1)) \ {seed} :
            DirectlyLinked(seed, a)

\* The network of depth 1 of a seed has a neighbour as node, while a stored
\* opinion two hops away, linked to that neighbour and not to the seed, is
\* left out.
C10_Witness ==
    \E seed \in OpinionIds, a \in OpinionIds, b \in OpinionIds :
        LET network == get_citation_network(PyInt(seed), 1) IN
        /\ seed # a /\ seed # b /\ a # b
        /\ a \in NodeIds(network)
        /\ OpinionStored(b) /\ DirectlyLinked(a, b) /\ ~DirectlyLinked(seed, b)
        /\ b \notin NodeIds(network)

\* The depths asked for.
MaxDepth == 2

Depths == 0..MaxDepth

\* The ids within d hops of the seed, a hop following a stored citation in
\* either direction.
RECURSIVE Within(_, _)
Within(seed, d) ==
    IF d = 0 THEN {seed}
    ELSE LET near == Within(seed, d - 1)
         IN  near \cup {b \in DeepOpinionIds : \E a \in near : DirectlyLinked(a, b)}

\* C11: for every stored graph, seed and depth d, the nodes of the network are
\* exactly the stored opinions within d hops of the seed.
C11_NodesAreExactlyWithinDepth ==
    \A seed \in DeepOpinionIds, d \in Depths :
        NodeIds(get_citation_network(PyInt(seed), d))
            = {a \in Within(seed, d) : OpinionStored(a)}

\* A depth no path of the stored graphs exceeds.
FullDepth == MaxOpinion + 1

\* A sequence without repetitions.
NoRepeats(seq) == \A i \in DOMAIN seq, j \in DOMAIN seq : seq[i] = seq[j] => i = j

\* C12: on every stored graph, cycles and self-citations included, the
\* traversal ends after a number of calls bounded by the edges it appended,
\* and it expands each opinion id, and adds it to the node list, at most once.
C12_EachIdExpandedOnce ==
    \A seed \in OpinionIds, d \in {FullDepth} :
        LET network == Traversal(PyInt(seed), d)
            citations == Len(storage["citations"].id_index)
        IN  /\ NoRepeats(network.expanded)
            /\ NoRepeats([i \in DOMAIN network.nodes |-> network.nodes[i].id])
            /\ Len(network.edges) <= 2 * citations * Len(network.expanded)
            /\ network.calls <= 1 + 2 * Len(network.edges)

\* The graph holds a self-citation of the seed and a cycle through it, and
\* the traversal came back to ids it had expanded.
C12_Witness ==
    \E seed \in OpinionIds, a \in OpinionIds :
        LET network == Traversal(PyInt(seed), FullDepth) IN
        /\ a # seed
        /\ ToString(seed) \o "_" \o ToString(seed) \in DOMAIN storage["citations"].files
        /\ ToString(seed) \o "_" \o ToString(a) \in DOMAIN storage["citations"].files
        /\ ToString(a) \o "_" \o ToString(seed) \in DOMAIN storage["citations"].files
        /\ Len(network.expanded) = 2
        /\ network.calls > Len(network.expanded)

----------------------------------------------------------------------------
(* Claims about the citation lookups *)

\* A variant that reads the index of the citing id alone.
CourtFinderStorage_find_citations_by_opinion_Citing(opinion_id) ==
    find_by_field(storage["citations"], "Citation", "citing_opinion_id", opinion_id)

\* CourtFinderStorage.find_citations_by_opinion: "return citing + cited"
CourtFinderStorage_find_citations_by_opinion(opinion_id) ==
    LET citing == find_by_field(storage["citations"], "Citation",
                                "citing_opinion_id", opinion_id)
        cited == find_by_field(storage["citations"], "Citation",
                               "cited_opinion_id", opinion_id)
    IN  citing \o cited

\* The list holds a citation equal to c field for field.
ReturnsCitation(found, c) ==
    \E i \in DOMAIN found : FieldsEqual("Citation", found[i], c)

\* C13: a citation saved and not deleted or overwritten since is returned for
\* its citing id and for its cited id, by the lookup of the store through the
\* field indexes and by the lookup of the query engine.
C13_SavedCitationIsFound ==
    "Citation" \in scope =>
        \A k \in DOMAIN saved["citations"] :
            LET c == saved["citations"][k]
                a == c["citing_opinion_id"]
                b == c["cited_opinion_id"]
            IN  /\ ReturnsCitation(CourtFinderStorage_find_citations_by_opinion(a), c)
                /\ ReturnsCitation(CourtFinderStorage_find_citations_by_opinion(b), c)
                /\ ReturnsCitation(find_citations_by_opinion(a), c)
                /\ ReturnsCitation(find_citations_by_opinion(b), c)

\* Citation 1 -> 2 was saved over its other variant, and citation 2 -> 1 was
\* saved and deleted, which left the indexes with keys of no id.
C13_Witness ==
    /\ "Citation" \in scope
    /\ DOMAIN saved["citations"] = {"1_2"}
    /\ saved["citations"]["1_2"]["quoted"] = PyBool(FALSE)
    /\ "True" \in DOMAIN storage["citations"].field_indexes["quoted"]
    /\ "2" \in DOMAIN storage["citations"].field_indexes["citing_opinion_id"]
    /\ Len(CourtFinderStorage_find_citations_by_opinion(PyInt(2))) = 1
    /\ Len(find_citations_by_opinion(PyInt(1))) = 1

----------------------------------------------------------------------------
(* Claims about the domain FileStorage *)

RecordIdsOf(records) == {records[i].record_id : i \in DOMAIN records}

\* Thread t runs save_records_batch(records).
InBatch(t, records) ==
    /\ stack[t] # <<>>
    /\ stack[t][1].op = "save_records_batch"
    /\ stack[t][1].arg = records

\* save_records_batch(records) of thread t has returned, every record of the
\* list loads, and count_records() is the number of distinct ids of the list
\* when no other id was written.
BatchStored(t, records) ==
    /\ returned[t] # <<>>
    /\ returned[t][Len(returned[t])] = [op |-> "save_records_batch", arg |-> records]
    /\ \A id \in RecordIdsOf(records) : load_record(id) # Raised
    /\ written_ids \subseteq RecordIdsOf(records)
          => count_records = Cardinality(RecordIdsOf(records))

\* C14: a call of save_records_batch(records) returns, and then every record
\* of the list can be loaded and count_records() is the number of distinct
\* record ids of the list.
C14_BatchReturnsAndStores ==
    \A t \in Threads : \A records \in Batches :
        InBatch(t, records) ~> BatchStored(t, records)

----------------------------------------------------------------------------
(* Claims about concurrent saves *)

\* Every worker has returned, and so has save_batch.
AllReturned ==
    /\ \A w \in Workers : workers[w].at = "returned"
    /\ pool \in {"none", "returned"}

Occurrences(seq, x) == Cardinality({i \in DOMAIN seq : seq[i] = x})

\* Each saved id is in the primary index once, and once in the list of each
\* field index under the key of the value it was saved with.
IndexedOnce(fs) ==
    \A w \in Workers :
        LET item_data == to_dict("Court", workers[w].item)
            sid == str(workers[w].item["id"])
        IN  /\ Occurrences(fs.id_index, sid) = 1
            /\ \A f \in DOMAIN item_data :
                   IsIndexed(f, item_data[f]) =>
                       /\ f \in DOMAIN fs.field_indexes
                       /\ IndexKey(item_data[f]) \in DOMAIN fs.field_indexes[f]
                       /\ Occurrences(fs.field_indexes[f][IndexKey(item_data[f])], sid) = 1

\* The index files hold the indexes in memory: id_index.json the primary
\* index, the file of each field its index.
IndexFilesCurrent(fs) ==
    /\ "id_index.json" \in DOMAIN fs.index_files
    /\ fs.index_files["id_index.json"] = IdIndexJson(fs.id_index)
    /\ \A f \in DOMAIN fs.field_indexes :
           /\ IndexFileName(f) \in DOMAIN fs.index_files
           /\ fs.index_files[IndexFileName(f)] = FieldIndexJson(fs.field_indexes[f])

\* C15: once all workers that save records of distinct ids have returned,
\* each saved id is in the primary index once, each field index lists it once
\* under the value it was saved with, and the index files equal the indexes
\* in memory.
C15_ConcurrentSavesKeepIndexes ==
    AllReturned => /\ IndexedOnce(storage["courts"])
                   /\ IndexFilesCurrent(storage["courts"])

----------------------------------------------------------------------------
(* Claims about BulkDataSet *)

\* The dataset has a file, no file in ERROR status, every file in status
\* DOWNLOADED or PARSED, and a total size of at most 1 GiB.
ReadyForProcessing(ds) ==
    /\ ds.data_files # <<>>
    /\ \A i \in DOMAIN ds.data_files : ds.data_files[i].status \in {"DOWNLOADED", "PARSED"}
    /\ ds.total_size # None
    /\ ds.total_size.v <= GiB

\* C16: validate_for_processing returns True for a dataset with at least one
\* file, every file in status DOWNLOADED or PARSED and a total size of at
\* most 1 GiB; for a dataset with a file in ERROR status it returns False
\* and the last event of the dataset is DataValidationFailed.
C16_ValidatesDownloadedAndParsed ==
    outcome # None =>
        /\ ReadyForProcessing(dataset) => outcome = PyBool(TRUE)
        /\ has_errors(dataset) =>
               /\ outcome = PyBool(FALSE)
               /\ dataset.events # <<>>
               /\ dataset.events[Len(dataset.events)].event_type = "DataValidationFailed"

----------------------------------------------------------------------------
(* Claims about value cleaning *)

\* C18: a save of a record whose id is already stored replaces the stored
\* record: load of the id then returns the record just saved, the id is once
\* in the id index, and count() and list_all_ids() return what they returned
\* before that save.
C18_ResaveReplaces ==
    [][\A cls \in scope : \A k \in DOMAIN saved[StoreOf(cls)] :
          LET store == StoreOf(cls)
              before == storage[store]
              after == storage'[store]
          IN  (k \in DOMAIN saved'[store] /\ saved'[store][k] # saved[store][k]) =>
                  /\ \A r \in {saved'[store][k]} :
                         \A loaded \in {load(after, cls, r["id"])} :
                             /\ loaded \notin {None, Raised}
                             /\ FieldsEqual(cls, loaded, r)
                  /\ Occurrences(after.id_index, k) = 1
                  /\ count(after) = count(before)
                  /\ list_all_ids(after) = list_all_ids(before)]_vars

\* Two ids are stored, and the one saved first was saved again with another
\* value of an indexed field: the index of the field has it under the old
\* key too, load returns the later record, and the id is still the first of
\* the two ids listed.
C18_Witness ==
    \E cls \in scope :
        LET store == StoreOf(cls)
            fs == storage[store]
        IN  /\ count(fs) = 2
            /\ DOMAIN saved[store] = Range(list_all_ids(fs))
            /\ LET k == list_all_ids(fs)[1]
                   r == saved[store][k]
               IN  /\ Occurrences(fs.id_index, k) = 1
                   /\ load(fs, cls, r["id"]) \notin {None, Raised}
                   /\ FieldsEqual(cls, load(fs, cls, r["id"]), r)
                   /\ \E f \in DOMAIN fs.field_indexes :
                          \E key \in DOMAIN fs.field_indexes[f] :
                              /\ k \in Range(fs.field_indexes[f][key])
                              /\ key # IndexKey(to_dict(cls, r)[f])

----------------------------------------------------------------------------
(* Claims about the opinion decoder *)

\* The lines of the file after the header, without their line ends.
Physical ==
    [i \in 1..(Len(opinion_csv.lines) - 1) |->
        rstrip(opinion_csv.lines[i + 1], {Newline, "\r"})]

\* The places among the first n lines where a line starts with the sentinel.
Starts(n) == {i \in 1..n : StartsRecord(Physical[i])}

Greatest(S) == CHOOSE i \in S : \A j \in S : j <= i

\* While the lines are read, the record kept is the lines from the last one
\* that starts with the sentinel to the last one read, and there is none
\* before the first such line.
GroupsBySentinel ==
    parsing.pc = "lines" =>
        LET n == parsing.line_count
        IN  IF Starts(n) = {}
            THEN ~parsing.in_record /\ parsing.current_row_parts = <<>>
            ELSE /\ parsing.in_record
                 /\ parsing.current_row_parts = SubSeq(Physical, Greatest(Starts(n)), n)

\* The logical rows of the file: from each line that starts with the
\* sentinel to the line before the next one, joined.
LogicalRows ==
    LET all == Starts(Len(Physical))
        EndOf(i) == IF \E j \in all : j > i
                    THEN Least({j \in all : j > i}) - 1 ELSE Len(Physical)
    IN  {JoinWith(SubSeq(Physical, i, EndOf(i)), <<>>) : i \in all}

\* Without a limit every row returned has the tokens of a logical row whose
\* token count is the header's, and a logical row with another token count
\* gives no row.
DropsWrongCount ==
    (parsing.pc = "returned" /\ opinion_csv.limit = 0) =>
        LET kept == {row \in LogicalRows : Len(csv_row(row)) = Len(Columns)}
        IN  /\ \A i \in 1..Len(parsing.valid_rows) :
                   \E row \in kept :
                       parsing.valid_rows[i] = parse_csv_row(row, parsing.expected_columns)
            /\ Len(parsing.valid_rows) <= Cardinality(kept)

\* A row of the export is a valid opinion row: a field for each column, the
\* id and the cluster_id numbers, the type a code.
IsOpinionRow(fields) ==
    /\ Len(fields) = Len(Columns)
    /\ isdigit(fields[1])
    /\ isdigit(fields[2])
    /\ fields[3] # <<>> /\ Head(fields[3]) # "<"

\* The physical lines a row of the export takes.
PhysicalLines(fields) ==
    Len(ReadLines(ExportRow(fields)))

\* A valid row on three physical lines followed by a row with a wrong column
\* count, read without a limit, decodes to one row.
EndToEnd ==
    (/\ parsing.pc = "returned"
     /\ opinion_csv.limit = 0
     /\ Len(opinion_csv.rows) = 2
     /\ IsOpinionRow(opinion_csv.rows[1])
     /\ PhysicalLines(opinion_csv.rows[1]) = 3
     /\ Len(opinion_csv.rows[2]) # Len(Columns)) =>
        Len(parsing.valid_rows) = 1

\* C17: the decoder starts a logical row only at a physical line that starts
\* with the sentinel and appends every following line to it until the next
\* such line or the end of the input; a logical row whose token count is not
\* the header's is dropped; and a valid row on three physical lines followed
\* by a row with a wrong column count decodes to exactly one row.
C17_DecodesMultiLineRows ==
    /\ GroupsBySentinel
    /\ DropsWrongCount
    /\ EndToEnd

\* t is s with one character deleted.
Deletion(s, t) ==
    /\ Len(t) = Len(s) - 1
    /\ \E i \in 1..Len(s) : t = SubSeq(s, 1, i - 1) \o SubSeq(s, i + 1, Len(s))

\* One edit: a character substituted, deleted or inserted.
OneEdit(s, t) ==
    \/ Len(s) = Len(t) /\ Cardinality({i \in 1..Len(s) : s[i] # t[i]}) = 1
    \/ Deletion(s, t)
    \/ Deletion(t, s)

\* The strings that k edits or fewer make of v, among those of U.
RECURSIVE Ball(_, _, _)
Ball(U, v, k) ==
    IF k = 0 THEN {v}
    ELSE LET nearer == Ball(U, v, k - 1)
         IN  nearer \cup {t \in U : \E s \in nearer : OneEdit(s, t)}

\* The Levenshtein distance: the least number of edits that make p of v.
\* The strings between the two are no longer than the longer of them and
\* have the characters of p.
Levenshtein(v, p) ==
    LET U == Words \cup {v, p}
        longest == IF Len(v) > Len(p) THEN Len(v) ELSE Len(p)
    IN  CHOOSE k \in 0..longest :
            /\ p \in Ball(U, v, k)
            /\ \A j \in 0..(k - 1) : p \notin Ball(U, v, j)

\* C20: _fuzzy_match with budget b accepts v against p exactly when the
\* Levenshtein distance of v and p is at most b; Smith against Smyth is
\* accepted with budget 2 and rejected with budget 0; and when the lengths
\* differ by more than b, where _fuzzy_match returns early, the distance the
\* table gives is more than b as well.
C20_FuzzyIsLevenshteinWithinBudget ==
    (returns # <<>> /\ returns[1].op = "_fuzzy_match") =>
        LET v == argument.text
            p == argument.pattern
            b == argument.max_distance
        IN  /\ returns[1].v <=> (Levenshtein(v, p) <= b)
            /\ (v = Smith /\ p = Smyth /\ b = 2) => returns[1].v
            /\ (v = Smith /\ p = Smyth /\ b = 0) => ~returns[1].v
            /\ Abs(Len(v) - Len(p)) > b => d_at(v, p, Len(v), Len(p)) > b

\* Smith was matched against Smyth with budget 2, and accepted.
C20_Witness ==
    /\ returns # <<>>
    /\ returns[1] = [op |-> "_fuzzy_match", v |-> TRUE]
    /\ argument.text = Smith
    /\ argument.pattern = Smyth
    /\ argument.max_distance = 2

\* C19, as stated: for a value that starts and ends with the sentinel,
\* cleaning what clean_value returned returns it unchanged.
C19_CleanIsIdempotent ==
    (Len(returns) = 2 /\ IsWrapped(argument)) => returns[2] = returns[1]

\* C19: clean_value removes one pair of sentinels from a value that starts
\* and ends with the sentinel; cleaning the result again returns it unchanged
\* exactly when what the pair enclosed does not start and end with the
\* sentinel itself, and removes the next pair otherwise.
C19_CleanRemovesOnePair ==
    (Len(returns) = 2 /\ IsWrapped(argument)) =>
        /\ returns[1] = Inner(argument)
        /\ returns[2] = IF IsWrapped(returns[1]) THEN Inner(returns[1]) ELSE returns[1]
        /\ (returns[2] = returns[1]) <=> ~IsWrapped(returns[1])

\* A value in two pairs of sentinels was cleaned twice.
C19_Witness ==
    /\ Len(returns) = 2
    /\ argument = <<Sentinel, Sentinel, "a", Sentinel, Sentinel>>
    /\ returns[1] = <<Sentinel, "a", Sentinel>>
    /\ returns[2] = <<"a">>

----------------------------------------------------------------------------
(* Claims about the rows of a resumed import *)

----------------------------------------------------------------------------
(* Claims about the order and the pages of query results *)

\* The survivors of a query: the stored people that pass its filters, in
\* the order of list_all_ids.
Survivors(query) ==
    filtered_objects(storage["people"], "Person", list_all_ids(storage["people"]), query)

\* x < y for two values of one field that are not None
value_lt(x, y) ==
    CASE x.kind = "str" -> str_lt(x.v, y.v)
      [] x.kind = "date" ->
            \/ x.v[1] < y.v[1]
            \/ x.v[1] = y.v[1] /\ x.v[2] < y.v[2]
            \/ x.v[1] = y.v[1] /\ x.v[2] = y.v[2] /\ x.v[3] < y.v[3]
      [] OTHER -> x.v < y.v

\* a comes before b under one key, in the direction of the key: None first
\* when ascending, last when descending.
Precedes(criteria, a, b) ==
    LET x == a[criteria.field]
        y == b[criteria.field]
    IN  IF criteria.order = "ASC"
        THEN (x = None /\ y # None) \/ (x # None /\ y # None /\ value_lt(x, y))
        ELSE (y = None /\ x # None) \/ (x # None /\ y # None /\ value_lt(y, x))

\* a comes before b under the composite key: the first key on which they
\* differ decides.
RECURSIVE ComesBefore(_, _, _)
ComesBefore(sort_criteria, a, b) ==
    IF sort_criteria = <<>> THEN FALSE
    ELSE IF a[Head(sort_criteria).field] # b[Head(sort_criteria).field]
    THEN Precedes(Head(sort_criteria), a, b)
    ELSE ComesBefore(Tail(sort_criteria), a, b)

PlaceIn(seq, x) == CHOOSE i \in 1..Len(seq) : seq[i] = x

\* The rows are in the order of the composite key, rows that tie on every
\* key in the order they had among the survivors.
Ordered(rows, sort_criteria, survivors) ==
    \A i, j \in 1..Len(rows) :
        i < j =>
            /\ ~ComesBefore(sort_criteria, rows[j], rows[i])
            /\ ~ComesBefore(sort_criteria, rows[i], rows[j]) =>
                   PlaceIn(survivors, rows[i]) < PlaceIn(survivors, rows[j])

\* C22: the results of a query are in the order of its composite sort key,
\* each key in its own direction and ties in their original order, a record
\* whose sort field is None first under an ascending key and last under a
\* descending one.
C22_ResultsOrderedByCompositeKey ==
    (returns # <<>> /\ argument.sort_criteria # <<>>) =>
        Ordered(returns[1].results, argument.sort_criteria, Survivors(argument))

\* The survivors of a query in the order the sort of the query gives them.
SortedSurvivors(query) ==
    IF query.sort_criteria = <<>> THEN Survivors(query)
    ELSE list_sort(Survivors(query), query.sort_criteria, reverse(query.sort_criteria))

\* The saved people that pass every filter of a query.
Passing(query) ==
    {k \in DOMAIN saved["people"] :
        \A i \in 1..Len(query.filters) :
            saved["people"][k][query.filters[i].field] = query.filters[i].value}

\* C23: for a query with offset o and limit l the rows returned are the
\* sorted survivors at the positions o to o+l-1, never more than l rows;
\* filtered_count is the number of records that pass the filters, total_count
\* the number of ids in the store, and has_more_results() is true exactly
\* when survivors remain after the page.
C23_PageOfSortedSurvivors ==
    (returns # <<>> /\ argument.limit # None) =>
        LET r == returns[1]
            o == argument.offset
            l == argument.limit.v
            sorted == SortedSurvivors(argument)
            last == IF o + l < Len(sorted) THEN o + l ELSE Len(sorted)
        IN  /\ r.results = [i \in 1..(IF last > o THEN last - o ELSE 0) |-> sorted[o + i]]
            /\ Len(r.results) <= l
            /\ r.filtered_count = Cardinality(Passing(argument))
            /\ r.total_count = Cardinality(DOMAIN saved["people"])
            /\ has_more_results(r) <=> (o + l < Len(sorted))

----------------------------------------------------------------------------
(* Claims about a store whose process stops and starts again *)

\* found holds a record equal to r field for field.
Returns(cls, found, r) == \E i \in DOMAIN found : FieldsEqual(cls, found[i], r)

\* The fields _update_indexes indexes r under.
IndexedFields(cls, r) == {f \in Fields(cls) : IsIndexed(f, to_dict(cls, r)[f])}

\* C24: when the process stops after the data file of a record is written and
\* before the index files are, then after the restart the data file is there
\* and load(id) returns the record, and after cleanup_indexes, the rebuild the
\* store offers, the id is in list_all_ids and find_by_field finds the record
\* under the values of its indexed fields.
C24_RecoverableByRescan ==
    (process # None /\ process.state = "running" /\ process.interrupted # None) =>
        \A cls \in scope : \A r \in {process.interrupted} :
            \A fs \in {storage[StoreOf(cls)]} : \A loaded \in {load(fs, cls, r["id"])} :
                /\ exists(fs, r["id"])
                /\ loaded \notin {None, Raised}
                /\ FieldsEqual(cls, loaded, r)
                /\ process.op = "cleanup_indexes" =>
                       /\ str(r["id"]) \in Range(list_all_ids(fs))
                       /\ \A f \in IndexedFields(cls, r) :
                              Returns(cls, find_by_field(fs, cls, f, to_dict(cls, r)[f]), r)

\* The part of C24 about the data file: after the restart it is there and
\* load(id) returns the record.
C24_FileIntact ==
    (process # None /\ process.state = "running" /\ process.interrupted # None) =>
        \A cls \in scope : \A r \in {process.interrupted} :
            \A fs \in {storage[StoreOf(cls)]} : \A loaded \in {load(fs, cls, r["id"])} :
                /\ exists(fs, r["id"])
                /\ loaded \notin {None, Raised}
                /\ FieldsEqual(cls, loaded, r)

----------------------------------------------------------------------------
(* Claims about cancelling an import *)

\* C25: a running import checks the active flag between rows: once the flag
\* is cleared, it goes to no further row and counts none, and what it
\* imported before stays imported.
C25_StopsOnceFlagCleared ==
    [][(pc = "loop" /\ ~active) =>
          /\ row_num' = row_num
          /\ imported_count' = imported_count
          /\ error_count' = error_count]_vars

----------------------------------------------------------------------------
(* Claims about the row limit of the opinion decoders *)

\* No row is twice in the list.
NoRowTwice(rows) == \A i, j \in DOMAIN rows : i # j => rows[i] # rows[j]

\* C26: with a row limit L greater than 0, parse_opinion_csv and
\* parse_opinions_fast return at most L rows, and no logical row of the
\* input twice.
C26_AtMostLimitRowsNoneTwice ==
    (parsing.pc = "returned" /\ opinion_csv.limit > 0) =>
        /\ Len(parsing.valid_rows) <= opinion_csv.limit
        /\ NoRowTwice(parsing.valid_rows)

\* The ids of the primary index are the ids with a data file, and count()
\* is their number.
IndexIdsAreFileIds(fs) ==
    /\ Range(list_all_ids(fs)) = {id \in DOMAIN fs.files : exists(fs, PyStr(id))}
    /\ count(fs) = Cardinality(DOMAIN fs.files)

\* C27: after any sequence of successful saves and deletes by one caller the
\* ids of the primary index (list_all_ids, count) are the ids that have a
\* data file (exists, load), also in a store opened again from the files on
\* disk.
C27_IndexIdsAreFileIds ==
    (process.state = "running" /\ process.call = None /\ process.clean) =>
        \A cls \in scope : IndexIdsAreFileIds(storage[StoreOf(cls)])

\* The part of C27 about the store that was not opened again.
C27_InMemory ==
    (process.state = "running" /\ process.call = None /\ process.stops = 0) =>
        \A cls \in scope : IndexIdsAreFileIds(storage[StoreOf(cls)])

----------------------------------------------------------------------------
(* Claims about delete and about the two ways to look a value up *)

\* The key a record is stored under: its id, for a citation the composite id.
KeyOf(cls, r) == IF cls = "Citation" THEN str(citation_id(r)) ELSE str(r["id"])

\* found holds a record stored under the key.
ReturnsKey(cls, found, k) == \E i \in DOMAIN found : KeyOf(cls, found[i]) = k

\* The records of a type that the session saves.
AllRecords(cls) == IF cls = "Citation" THEN Citations ELSE Records(cls)

\* The record r, with the dictionary data it is saved as, is found under
\* the value of each of its indexed fields.
FoundUnderOwnValues(fs, cls, r, data) ==
    \A f \in {g \in Fields(cls) : IsIndexed(g, data[g])} :
        Returns(cls, find_by_field(fs, cls, f, data[f]), r)

\* C28: after delete(id) of a stored record, load(id) finds nothing, the id is
\* not in list_all_ids(), count() is one less than before, find_by_field
\* returns the record for no field and no value a record has in that field,
\* and every other stored record is loaded as it was saved and found under
\* the values of its indexed fields.
C28_DeleteRemovesOnlyThatRecord ==
    [][\A cls \in scope : \A store \in {StoreOf(cls)} :
          \A k \in DOMAIN saved[store] \ DOMAIN saved'[store] :
              \A before \in {storage[store]} : \A after \in {storage'[store]} :
              \A item_id \in {saved[store][k]["id"]} : \A records \in {AllRecords(cls)} :
                  /\ load(after, cls, item_id) = None
                  /\ k \notin Range(list_all_ids(after))
                  /\ count(after) = count(before) - 1
                  /\ \A field \in Fields(cls) : \A value \in {r[field] : r \in records} \ {None} :
                         ~ReturnsKey(cls, find_by_field(after, cls, field, value), k)
                  /\ \A k2 \in DOMAIN saved'[store] : \A r \in {saved'[store][k2]} :
                         \A loaded \in {load(after, cls, r["id"])} :
                             /\ loaded \notin {None, Raised}
                             /\ FieldsEqual(cls, loaded, r)
                             /\ \A data \in {to_dict(cls, r)} :
                                    FoundUnderOwnValues(after, cls, r, data)]_vars

\* A record was deleted, which left a key without ids in the index of the
\* field id, and another record is stored.
C28_Witness ==
    \E cls \in scope :
        LET fs == storage[StoreOf(cls)]
        IN  /\ DOMAIN saved[StoreOf(cls)] # {}
            /\ DOMAIN saved[StoreOf(cls)] = DOMAIN fs.files
            /\ "id" \in DOMAIN fs.field_indexes
            /\ \E key \in DOMAIN fs.field_indexes["id"] :
                   /\ fs.field_indexes["id"][key] = <<>>
                   /\ key \notin DOMAIN fs.files
                   /\ key \notin Range(fs.id_index)

\* The keys of the records of a list.
KeysOf(cls, found) == {KeyOf(cls, found[i]) : i \in DOMAIN found}

\* C29: the lookup through the field index and the query that scans the
\* store agree in every state: for every indexed field and every value a
\* record has in it, find_by_field(field, value) and the query with the one
\* filter field EQUALS value return records of the same ids.
C29_IndexLookupAgreesWithScan ==
    \A cls \in scope : \A fs \in {storage[StoreOf(cls)]} : \A records \in {AllRecords(cls)} :
        \A field \in Fields(cls) \ {"date_created", "date_modified"} :
            \A value \in {r[field] : r \in records} \ {None} :
                KeysOf(cls, find_by_field(fs, cls, field, value))
                    = KeysOf(cls, _search_storage(StoreOf(cls), field, value))

\* The part of C29 about the two lookups of citations by opinion, which
\* read the fields the id of a citation is made of.
C29_CitationLookupsAgree ==
    "Citation" \in scope =>
        \A field \in {"citing_opinion_id", "cited_opinion_id"} :
            \A value \in {c[field] : c \in Citations} :
                KeysOf("Citation", find_by_field(storage["citations"], "Citation", field, value))
                    = KeysOf("Citation", _search_storage("citations", field, value))

----------------------------------------------------------------------------
(* Claims about the checkpoints one import run saves *)

\* The file a save replaces is a checkpoint of the running call: one it
\* saved itself, or the one it resumed from.
OfThisRun(file) ==
    /\ file.kind = "json"
    /\ file # start_file \/ started = "resumed"

\* C30: within one import run, also a resumed one, each checkpoint saved has
\* a row position, an imported count and an error count that are not below
\* those of the checkpoint before it, and its row position is the position of
\* a row the run has just imported: a row with an id, not skipped, within the
\* limit, whose parse and save did not raise.
C30_CheckpointsAdvance ==
    [][(pc = "saving" /\ pc' = "loop") =>
          /\ cpFile'.kind = "json"
          /\ cpFile'.row_number = row_num
          /\ RowKind(source, row_num) = "ok"
          /\ ~SkipsRow(row_num, resume_from)
          /\ ~PastLimit(row_num, limit)
          /\ OfThisRun(save_old) =>
                 /\ save_old.row_number <= cpFile'.row_number
                 /\ save_old.imported_count <= cpFile'.imported_count
                 /\ save_old.error_count <= cpFile'.error_count]_vars

\* A resumed run has saved a checkpoint after the one it resumed from, in a
\* source with a row that raised.
C30_Witness ==
    /\ pc = "loop"
    /\ started = "resumed"
    /\ start_file.kind = "json"
    /\ cpFile.kind = "json"
    /\ cpFile # start_file
    /\ cpFile.row_number = row_num
    /\ cpFile.imported_count = start_file.imported_count + CheckpointEvery
    /\ cpFile.error_count > 0

====
